---- MODULE Spec2Model ----
(***************************************************************************)
(* CatBase: the catalog ingestion pipeline (backend/scripts) and the       *)
(* rating crawler (backend/scraper) as state machines over one relational  *)
(* store.                                                                  *)
(*                                                                         *)
(* Text is a sequence of one-character strings, so that strip(), lower(),  *)
(* replace() and the regular expressions of the source are computed and    *)
(* not assumed.  A Python None / SQL NULL is the empty tuple None, a       *)
(* present value v is the one-element tuple Some(v).                       *)
(***************************************************************************)
EXTENDS Integers, Sequences, FiniteSets, TLC

\* ------------------------------------------------------------------------
\* Optional values
\* ------------------------------------------------------------------------
None == <<>>
Some(v) == <<v>>
IsNone(x) == x = <<>>
Get(x) == x[1]

\* ------------------------------------------------------------------------
\* Text
\* ------------------------------------------------------------------------
UpperAlpha == <<"A","B","C","D","E","F","G","H","I","J","K","L","M",
                "N","O","P","Q","R","S","T","U","V","W","X","Y","Z">>
LowerAlpha == <<"a","b","c","d","e","f","g","h","i","j","k","l","m",
                "n","o","p","q","r","s","t","u","v","w","x","y","z">>
DigitChars == <<"0","1","2","3","4","5","6","7","8","9">>

Range(f) == {f[i] : i \in DOMAIN f}
Max(S) == CHOOSE m \in S : \A n \in S : n <= m
Min(S) == CHOOSE m \in S : \A n \in S : m <= n
IndexOf(seq, c) == CHOOSE i \in DOMAIN seq : seq[i] = c

IsUpper(c) == c \in Range(UpperAlpha)
IsLower(c) == c \in Range(LowerAlpha)
IsAlpha(c) == IsUpper(c) \/ IsLower(c)
IsDigit(c) == c \in Range(DigitChars)
DigitVal(c) == IndexOf(DigitChars, c) - 1
\* \s of the regular expressions and the characters str.strip() removes
IsSpace(c) == c \in {" ", "\t"}
\* \w of the regular expressions
IsWord(c) == IsAlpha(c) \/ IsDigit(c) \/ c = "_"

LowerChar(c) == IF IsUpper(c) THEN LowerAlpha[IndexOf(UpperAlpha, c)] ELSE c
UpperChar(c) == IF IsLower(c) THEN UpperAlpha[IndexOf(LowerAlpha, c)] ELSE c
\* str.lower()
Lower(s) == [i \in DOMAIN s |-> LowerChar(s[i])]
\* str.capitalize()
Capitalize(s) == [i \in DOMAIN s |-> IF i = 1 THEN UpperChar(s[i]) ELSE LowerChar(s[i])]

RECURSIVE LStrip(_)
LStrip(s) == IF s # <<>> /\ IsSpace(Head(s)) THEN LStrip(Tail(s)) ELSE s
RECURSIVE RStrip(_)
RStrip(s) == IF s # <<>> /\ IsSpace(s[Len(s)]) THEN RStrip(SubSeq(s, 1, Len(s) - 1)) ELSE s
\* str.strip()
Strip(s) == RStrip(LStrip(s))

StartsWith(s, p) == Len(s) >= Len(p) /\ SubSeq(s, 1, Len(p)) = p
Drop(s, n) == SubSeq(s, n + 1, Len(s))

\* str.replace(old, new): non-overlapping occurrences, left to right
RECURSIVE Replace(_, _, _)
Replace(s, old, new) ==
    IF s = <<>> THEN <<>>
    ELSE IF StartsWith(s, old) THEN new \o Replace(Drop(s, Len(old)), old, new)
    ELSE <<Head(s)>> \o Replace(Tail(s), old, new)

\* str.split(sep) for a one-character separator
RECURSIVE Split(_, _)
Split(s, sep) ==
    IF \A i \in DOMAIN s : s[i] # sep THEN <<s>>
    ELSE LET i == CHOOSE j \in DOMAIN s : s[j] = sep /\ \A k \in 1..(j - 1) : s[k] # sep
         IN  <<SubSeq(s, 1, i - 1)>> \o Split(Drop(s, i), sep)

\* " ".join(parts)
RECURSIVE JoinSp(_)
JoinSp(parts) ==
    IF parts = <<>> THEN <<>>
    ELSE IF Len(parts) = 1 THEN parts[1]
    ELSE parts[1] \o <<" ">> \o JoinSp(Tail(parts))

\* re.sub(r"\s+", " ", s)
RECURSIVE CollapseWs(_)
CollapseWs(s) ==
    IF s = <<>> THEN <<>>
    ELSE IF IsSpace(Head(s)) THEN <<" ">> \o CollapseWs(LStrip(s))
    ELSE <<Head(s)>> \o CollapseWs(Tail(s))

\* ------------------------------------------------------------------------
\* Numbers.  A float is <<m, e>> standing for m / 10^e, with no trailing
\* zero in the fraction, so that 3, 3.0 and 3.00 are one value.
\* ------------------------------------------------------------------------
IsDigits(s) == s # <<>> /\ \A i \in DOMAIN s : IsDigit(s[i])

RECURSIVE NatVal(_)
NatVal(s) == IF s = <<>> THEN 0 ELSE 10 * NatVal(SubSeq(s, 1, Len(s) - 1)) + DigitVal(s[Len(s)])

RECURSIVE NormFloat(_)
NormFloat(f) == IF f[2] > 0 /\ f[1] % 10 = 0 THEN NormFloat(<<f[1] \div 10, f[2] - 1>>) ELSE f

\* digits [ "." digits ] as matched by \d+(?:\.\d+)? against the whole of s
IsRegexNum(s) ==
    \/ IsDigits(s)
    \/ \E i \in DOMAIN s : /\ s[i] = "."
                           /\ IsDigits(SubSeq(s, 1, i - 1))
                           /\ IsDigits(Drop(s, i))
\* the unsigned decimal literals float() accepts: "3", "3.", ".5", "3.5"
IsUnsignedFloat(s) ==
    \/ IsDigits(s)
    \/ \E i \in DOMAIN s : /\ s[i] = "."
                           /\ Len(s) > 1
                           /\ \A k \in DOMAIN s : k # i => IsDigit(s[k])
UnsignedFloatVal(s) ==
    IF IsDigits(s) THEN <<NatVal(s), 0>>
    ELSE LET i == CHOOSE j \in DOMAIN s : s[j] = "."
         IN  NormFloat(<<NatVal(SubSeq(s, 1, i - 1) \o Drop(s, i)), Len(s) - i>>)

\* the values of float() that are no number: nan, inf and -inf
NaN == <<0, 0 - 1>>
Inf == <<1, 0 - 1>>
IsFinite(f) == f[2] >= 0

\* float(s): Some(value), or None where Python raises ValueError
PyFloat(s0) ==
    LET s == Strip(s0)
        body == IF s # <<>> /\ Head(s) \in {"+", "-"} THEN Tail(s) ELSE s
        neg == s # <<>> /\ Head(s) = "-"
    IN  IF IsUnsignedFloat(body)
        THEN LET v == UnsignedFloatVal(body)
             IN  Some(<<IF neg THEN 0 - v[1] ELSE v[1], v[2]>>)
        ELSE IF Lower(body) = <<"n", "a", "n">> THEN Some(NaN)
        ELSE IF Lower(body) \in {<<"i", "n", "f">>, <<"i", "n", "f", "i", "n", "i", "t", "y">>}
        THEN Some(<<IF neg THEN 0 - 1 ELSE 1, 0 - 1>>)
        ELSE None

RECURSIVE Pow10(_)
Pow10(n) == IF n = 0 THEN 1 ELSE 10 * Pow10(n - 1)
\* int(f) for a finite float f: truncation toward zero
TruncFloat(f) ==
    IF f[1] >= 0 THEN f[1] \div Pow10(f[2]) ELSE 0 - ((0 - f[1]) \div Pow10(f[2]))

\* int(s): Some(value), or None where Python raises ValueError
PyInt(s0) ==
    LET s == Strip(s0)
        body == IF s # <<>> /\ Head(s) \in {"+", "-"} THEN Tail(s) ELSE s
        neg == s # <<>> /\ Head(s) = "-"
    IN  IF IsDigits(body)
        THEN Some(IF neg THEN 0 - NatVal(body) ELSE NatVal(body))
        ELSE None


\* ------------------------------------------------------------------------
\* Column headers are whole tokens; their lower-case and stripped forms are
\* tabulated for every alias of ALIASES and every header a file may carry.
\* ------------------------------------------------------------------------
HeaderLowerTable ==
       " Title" :> " title"
    @@ "#" :> "#"
    @@ "Begin Time" :> "begin time"
    @@ "Bldg" :> "bldg"
    @@ "Bldg Code" :> "bldg code"
    @@ "Bldg/Room" :> "bldg/room"
    @@ "Building" :> "building"
    @@ "CRN" :> "crn"
    @@ "Campus" :> "campus"
    @@ "Cap" :> "cap"
    @@ "Capacity" :> "capacity"
    @@ "Catalog Nbr" :> "catalog nbr"
    @@ "Catalog Number" :> "catalog number"
    @@ "Cmpnt" :> "cmpnt"
    @@ "Comp Numb" :> "comp numb"
    @@ "Component" :> "component"
    @@ "Course #" :> "course #"
    @@ "Course Number" :> "course number"
    @@ "Course Reference Number" :> "course reference number"
    @@ "Course Title" :> "course title"
    @@ "Credit Hours" :> "credit hours"
    @@ "Credit Hrs" :> "credit hrs"
    @@ "Credits" :> "credits"
    @@ "Crn" :> "crn"
    @@ "Current Enrl" :> "current enrl"
    @@ "Current Enrollment" :> "current enrollment"
    @@ "Day" :> "day"
    @@ "Days" :> "days"
    @@ "Dept" :> "dept"
    @@ "Dept Code" :> "dept code"
    @@ "E-mail" :> "e-mail"
    @@ "Email" :> "email"
    @@ "Email Address" :> "email address"
    @@ "End" :> "end"
    @@ "End Time" :> "end time"
    @@ "Enrolled" :> "enrolled"
    @@ "Enrollment" :> "enrollment"
    @@ "Enrollment Cap" :> "enrollment cap"
    @@ "Finish Time" :> "finish time"
    @@ "Instr" :> "instr"
    @@ "Instructor" :> "instructor"
    @@ "Instructor Email" :> "instructor email"
    @@ "Instructor Name" :> "instructor name"
    @@ "Lec Lab" :> "lec lab"
    @@ "Loc" :> "loc"
    @@ "Location" :> "location"
    @@ "Long Title" :> "long title"
    @@ "Max Enrl" :> "max enrl"
    @@ "Max Enrollment" :> "max enrollment"
    @@ "Meeting Days" :> "meeting days"
    @@ "Meeting End Time" :> "meeting end time"
    @@ "Meeting Start Time" :> "meeting start time"
    @@ "Net Id" :> "net id"
    @@ "NetID" :> "netid"
    @@ "NetId" :> "netid"
    @@ "Netid" :> "netid"
    @@ "Number" :> "number"
    @@ "Primary Instructor" :> "primary instructor"
    @@ "Room" :> "room"
    @@ "Room Nbr" :> "room nbr"
    @@ "Room Number" :> "room number"
    @@ "SUBJ" :> "subj"
    @@ "Semester" :> "semester"
    @@ "Start" :> "start"
    @@ "Start Time" :> "start time"
    @@ "Subj" :> "subj"
    @@ "Subject" :> "subject"
    @@ "Subject Code" :> "subject code"
    @@ "Term" :> "term"
    @@ "Term Name" :> "term name"
    @@ "Term Year" :> "term year"
    @@ "Title" :> "title"
    @@ "Type" :> "type"
    @@ "Year" :> "year"
    @@ "crn" :> "crn"
    @@ "subj" :> "subj"
HeaderLower(h) == HeaderLowerTable[h]
HeaderStrip(h) == IF h = " Title" THEN "Title" ELSE h

\* ---- Header alias map (ingest_all_terms.py) ----
ALIASES ==
       "Subj" :> <<"Subj", "SUBJ", "Subject", "Subject Code", "Dept", "Dept Code">>
    @@ "Number" :> <<"Number", "#", "Course Number", "Course #", "Catalog Nbr", "Catalog Number">>
    @@ "Title" :> <<"Title", "Course Title", "Long Title">>
    @@ "Comp Numb" :> <<"Comp Numb", "CRN", "Crn", "Course Reference Number">>
    @@ "Lec Lab" :> <<"Lec Lab", "Component", "Cmpnt", "Type">>
    @@ "Credits" :> <<"Credits", "Credit Hrs", "Credit Hours">>
    @@ "Start Time" :> <<"Start Time", "Start", "Begin Time", "Meeting Start Time">>
    @@ "End Time" :> <<"End Time", "End", "Finish Time", "Meeting End Time">>
    @@ "Days" :> <<"Days", "Day", "Meeting Days">>
    @@ "Bldg" :> <<"Bldg", "Building", "Bldg Code">>
    @@ "Room" :> <<"Room", "Room Nbr", "Room Number">>
    @@ "Location" :> <<"Location", "Campus", "Bldg/Room", "Loc">>
    @@ "Instructor" :> <<"Instructor", "Primary Instructor", "Instr", "Instructor Name">>
    @@ "NetId" :> <<"NetId", "NetID", "Net Id", "Netid">>
    @@ "Email" :> <<"Email", "E-mail", "Instructor Email", "Email Address">>
    @@ "Max Enrollment" :> <<"Max Enrollment", "Cap", "Capacity", "Enrollment Cap", "Max Enrl">>
    @@ "Current Enrollment" :> <<"Current Enrollment", "Enrolled", "Enrollment", "Current Enrl">>
    @@ "Semester" :> <<"Semester", "Term", "Term Name">>
    @@ "Year" :> <<"Year", "Term Year">>

\* ---- ingest_all_terms.py: cell helpers ----
\* a csv.DictReader row is a function from header to cell text
RowGet(row, k) == IF k \in DOMAIN row THEN Some(row[k]) ELSE None

norm(x) == IF IsNone(x) THEN <<>> ELSE Strip(Get(x))

S_nan == <<"n", "a", "n">>
is_missing(x) ==
    LET s == IF IsNone(x) THEN <<>> ELSE Get(x)
    IN  Strip(s) = <<>> \/ Lower(Strip(s)) = S_nan

to_int(x) ==
    LET s == norm(x)
    IN  IF s = <<>> \/ Lower(s) = S_nan THEN None
        ELSE IF IsNone(PyFloat(s)) THEN None
        ELSE IF ~IsFinite(Get(PyFloat(s))) THEN None
        ELSE Some(TruncFloat(Get(PyFloat(s))))

\* the en dash and the em dash, each one character of the cell
EnDash == "ndash"
EmDash == "mdash"

\* ^\s*(\d+(?:\.\d+)?)\s*-\s*(\d+(?:\.\d+)?)\s*$
CreditRangeAt(s, i) ==
    /\ s[i] = "-"
    /\ IsRegexNum(Strip(SubSeq(s, 1, i - 1)))
    /\ IsRegexNum(Strip(Drop(s, i)))

\* (credits_min, credits_max) as a pair of optional floats
parse_credits(x) ==
    LET s0 == norm(x)
        s == Replace(Replace(Replace(s0, <<"t", "o">>, <<"-">>), <<EnDash>>, <<"-">>), <<EmDash>>, <<"-">>)
    IN  IF s0 = <<>> THEN <<None, None>>
        ELSE IF \E i \in DOMAIN s : CreditRangeAt(s, i)
        THEN LET i == CHOOSE j \in DOMAIN s : CreditRangeAt(s, j)
             IN  <<PyFloat(Strip(SubSeq(s, 1, i - 1))), PyFloat(Strip(Drop(s, i)))>>
        ELSE <<PyFloat(s), PyFloat(s)>>

\* ---- ingest_all_terms.py: column mapping per file ----
HeaderSet(headers) == {HeaderStrip(headers[i]) : i \in DOMAIN headers}

\* hs lists hset in the order "for h in hset" yields it, which Python fixes
\* per set object and not per content.
\* the header one alias selects: an exact match, else a case-insensitive one
AliasHit(hs, a) ==
    IF a \in Range(hs) THEN Some(a)
    ELSE IF \E i \in DOMAIN hs : HeaderLower(hs[i]) = HeaderLower(a)
    THEN Some(hs[Min({i \in DOMAIN hs : HeaderLower(hs[i]) = HeaderLower(a)})])
    ELSE None

RECURSIVE FirstAliasHit(_, _)
FirstAliasHit(hs, alts) ==
    IF alts = <<>> THEN None
    ELSE IF ~IsNone(AliasHit(hs, Head(alts))) THEN AliasHit(hs, Head(alts))
    ELSE FirstAliasHit(hs, Tail(alts))

\* the orders in which the set of the stripped headers may be iterated
HeaderOrders(headers) ==
    {hs \in [1..Cardinality(HeaderSet(headers)) -> HeaderSet(headers)] :
        \A i, j \in DOMAIN hs : i # j => hs[i] # hs[j]}
\* the stripped headers in file order, each once
RECURSIVE HeaderSeq(_)
HeaderSeq(headers) ==
    IF headers = <<>> THEN <<>>
    ELSE LET front == HeaderSeq(SubSeq(headers, 1, Len(headers) - 1))
             h == HeaderStrip(headers[Len(headers)])
         IN  IF h \in Range(front) THEN front ELSE Append(front, h)

\* build_keymap when hset is iterated in the order hs
build_keymap_in(hs) ==
    [canon \in DOMAIN ALIASES |-> FirstAliasHit(hs, ALIASES[canon])]
\* build_keymap of headers no two of which differ in letter case only:
\* every iteration order gives the same map
build_keymap(headers) == build_keymap_in(HeaderSeq(headers))

getv(row, keymap, canon) ==
    LET k == keymap[canon]
    IN  IF IsNone(k) THEN None ELSE Some(norm(RowGet(row, Get(k))))

\* Python's "x or None" for an optional text
OrNone(x) == IF IsNone(x) \/ Get(x) = <<>> THEN None ELSE x

\* ---- ingest_all_terms.py: term from the file name ----
S_uvm_ == <<"u", "v", "m", "_">>
S_cleaned_csv == <<"_", "c", "l", "e", "a", "n", "e", "d", ".", "c", "s", "v">>
S_spring == <<"s", "p", "r", "i", "n", "g">>
S_summer == <<"s", "u", "m", "m", "e", "r">>
S_fall == <<"f", "a", "l", "l">>
S_winter == <<"w", "i", "n", "t", "e", "r">>
S_Unknown == <<"U", "n", "k", "n", "o", "w", "n">>
SemesterWords == {S_spring, S_summer, S_fall, S_winter}

\* RE_FILENAME_TERM.match(name): anchored at the start only, letter case ignored
FilenameTermMatch(name, w) ==
    LET l == Lower(name)
        rest == Drop(l, Len(S_uvm_) + Len(w) + 1)
    IN  /\ StartsWith(l, S_uvm_ \o w \o <<"_">>)
        /\ Len(rest) >= 4
        /\ IsDigits(SubSeq(rest, 1, 4))
        /\ StartsWith(Drop(rest, 4), S_cleaned_csv)

\* (semester, year); year is optional
term_from_filename(name) ==
    IF \E w \in SemesterWords : FilenameTermMatch(name, w)
    THEN LET w == CHOOSE v \in SemesterWords : FilenameTermMatch(name, v)
             k == Len(S_uvm_) + Len(w) + 1
         IN  <<Capitalize(SubSeq(name, Len(S_uvm_) + 1, Len(S_uvm_) + Len(w))),
               Some(NatVal(SubSeq(name, k + 1, k + 4)))>>
    ELSE <<S_Unknown, None>>

\* ------------------------------------------------------------------------
\* The relational store (schema of ensure_schema, with the rating columns of
\* migrate_add_rmp_columns).  A table is the set of its rows; NOT NULL
\* columns hold the value, nullable columns hold an optional value.
\* ------------------------------------------------------------------------
S_Spring == <<"S", "p", "r", "i", "n", "g">>
S_Summer == <<"S", "u", "m", "m", "e", "r">>
S_Fall == <<"F", "a", "l", "l">>
S_Winter == <<"W", "i", "n", "t", "e", "r">>
\* CHECK (semester IN ('Spring','Summer','Fall','Winter'))
SemesterNames == {S_Spring, S_Summer, S_Fall, S_Winter}

EmptyStore ==
    [terms |-> {}, subjects |-> {}, courses |-> {}, instructors |-> {},
     sections |-> {}, meetings |-> {}, section_instructors |-> {}]

\* the rowid SQLite gives to a row inserted into an INTEGER PRIMARY KEY table
NextRowid(ids) == IF ids = {} THEN 1 ELSE Max(ids) + 1

\* the rating columns of a freshly inserted instructor row are all NULL
NoRating ==
    [rmp_id |-> None, rmp_url |-> None, rmp_avg_rating |-> None,
     rmp_num_ratings |-> None, rmp_would_take_again |-> None,
     rmp_difficulty |-> None, rmp_top_tags_json |-> None,
     rmp_rating_distribution_json |-> None, rmp_last_refreshed |-> None]

\* COALESCE(x, '')
Coalesce(x) == IF IsNone(x) THEN <<>> ELSE Get(x)

\* ---- ingest_all_terms.py: dimension lookups ----
\* Each returns [db |-> the store afterwards, id |-> the identifier,
\* raised |-> TRUE when the Python code raises instead of returning].

TermRows(s, semester, year) ==
    {t \in s.terms : ~IsNone(year) /\ t.semester = semester /\ t.year = Get(year)}

get_term_id(s, semester, year) ==
    IF TermRows(s, semester, year) # {}
    THEN [db |-> s, id |-> Some(Min({t.term_id : t \in TermRows(s, semester, year)})), raised |-> FALSE]
    ELSE IF IsNone(year) \/ semester \notin SemesterNames
    \* INSERT OR IGNORE skips the row that violates NOT NULL or CHECK, and
    \* the SELECT that follows finds nothing: fetchone()[0] raises TypeError
    THEN [db |-> s, id |-> None, raised |-> TRUE]
    ELSE LET new == NextRowid({t.term_id : t \in s.terms})
         IN  [db |-> [s EXCEPT !.terms = @ \cup {[term_id |-> new, semester |-> semester, year |-> Get(year)]}],
              id |-> Some(new), raised |-> FALSE]

get_subject_id(s, code0) ==
    LET code == norm(code0)
        hit == {r \in s.subjects : r.code = code}
        new == NextRowid({r.subject_id : r \in s.subjects})
    IN  IF code = <<>> THEN [db |-> s, id |-> None, raised |-> FALSE]
        ELSE IF hit # {}
        THEN [db |-> s, id |-> Some(Min({r.subject_id : r \in hit})), raised |-> FALSE]
        ELSE [db |-> [s EXCEPT !.subjects = @ \cup {[subject_id |-> new, code |-> code]}],
              id |-> Some(new), raised |-> FALSE]

get_course_id(s, subject_id, number0, title0) ==
    LET number == norm(number0)
        title == norm(title0)
        hit == {c \in s.courses : c.subject_id = subject_id /\ c.course_number = number /\ c.title = title}
        new == NextRowid({c.course_id : c \in s.courses})
    IN  IF hit # {}
        THEN [db |-> s, id |-> Some(Min({c.course_id : c \in hit})), raised |-> FALSE]
        ELSE [db |-> [s EXCEPT !.courses = @ \cup
                        {[course_id |-> new, subject_id |-> subject_id,
                          course_number |-> number, title |-> title]}],
              id |-> Some(new), raised |-> FALSE]

\* WHERE name=? AND COALESCE(netid,'')=COALESCE(?,'') AND COALESCE(email,'')=COALESCE(?,'')
InstructorRows(s, name, netid, email) ==
    {i \in s.instructors : /\ i.name = name
                           /\ Coalesce(i.netid) = Coalesce(netid)
                           /\ Coalesce(i.email) = Coalesce(email)}

\* UNIQUE (name, netid, email): SQLite holds two NULLs to be distinct
InstructorConflict(s, name, netid, email) ==
    \E i \in s.instructors : /\ i.name = name
                             /\ ~IsNone(netid) /\ i.netid = netid
                             /\ ~IsNone(email) /\ i.email = email

InsertInstructor(s, name, netid, email) ==
    [s EXCEPT !.instructors = @ \cup
        {[instructor_id |-> NextRowid({i.instructor_id : i \in s.instructors}),
          name |-> name, netid |-> netid, email |-> email] @@ NoRating}]

get_instructor_id(s, name0, netid0, email0) ==
    LET name == norm(name0)
        netid == OrNone(Some(norm(netid0)))
        email == OrNone(Some(norm(email0)))
        hit == InstructorRows(s, name, netid, email)
        s2 == IF InstructorConflict(s, name, netid, email) THEN s
              ELSE InsertInstructor(s, name, netid, email)
    IN  IF name = <<>> THEN [db |-> s, id |-> None, raised |-> FALSE]
        ELSE IF hit # {}
        THEN [db |-> s, id |-> Some(Min({i.instructor_id : i \in hit})), raised |-> FALSE]
        ELSE [db |-> s2,
              id |-> Some(Min({i.instructor_id : i \in InstructorRows(s2, name, netid, email)})),
              raised |-> FALSE]

\* ---- ingest_all_terms.py: section upsert ----
SectionRows(s, term_id, crn) ==
    {x \in s.sections : x.term_id = term_id /\ x.crn = crn}

\* faulty variant: ON CONFLICT(term_id, crn) DO NOTHING
upsert_section_and_get_id_keep(s, course_id, term_id, crn, lec_lab, cmin, cmax, max_enr, cur_enr) ==
    LET hit == SectionRows(s, term_id, crn)
        new == NextRowid({x.section_id : x \in s.sections})
        s2 == IF hit = {}
              THEN [s EXCEPT !.sections = @ \cup
                       {[section_id |-> new, course_id |-> course_id, term_id |-> term_id,
                         crn |-> crn, lec_lab |-> lec_lab, credits_min |-> cmin,
                         credits_max |-> cmax, max_enrollment |-> max_enr,
                         current_enrollment |-> cur_enr]}]
              ELSE s
    IN  [db |-> s2, id |-> Min({x.section_id : x \in SectionRows(s2, term_id, crn)})]

\* faulty variant: INSERT OR REPLACE INTO sections: the row in conflict is
\* deleted, its links go with it (ON DELETE CASCADE), and a new row is inserted
upsert_section_and_get_id_replace(s, course_id, term_id, crn, lec_lab, cmin, cmax, max_enr, cur_enr) ==
    LET hit == SectionRows(s, term_id, crn)
        new == NextRowid({x.section_id : x \in s.sections})
        vals == [course_id |-> course_id, term_id |-> term_id, crn |-> crn,
                 lec_lab |-> lec_lab, credits_min |-> cmin, credits_max |-> cmax,
                 max_enrollment |-> max_enr, current_enrollment |-> cur_enr]
        gone == {x.section_id : x \in hit}
        s2 == [s EXCEPT !.sections = (@ \ hit) \cup {[section_id |-> new] @@ vals},
                        !.section_instructors = {l \in @ : l.section_id \notin gone}]
    IN  [db |-> s2, id |-> new]

upsert_section_and_get_id(s, course_id, term_id, crn, lec_lab, cmin, cmax, max_enr, cur_enr) ==
    LET hit == SectionRows(s, term_id, crn)
        new == NextRowid({x.section_id : x \in s.sections})
        vals == [course_id |-> course_id, term_id |-> term_id, crn |-> crn,
                 lec_lab |-> lec_lab, credits_min |-> cmin, credits_max |-> cmax,
                 max_enrollment |-> max_enr, current_enrollment |-> cur_enr]
        s2 == IF hit = {}
              THEN [s EXCEPT !.sections = @ \cup {[section_id |-> new] @@ vals}]
              ELSE [s EXCEPT !.sections =
                        {IF x \in hit THEN [section_id |-> x.section_id] @@ vals ELSE x : x \in @}]
    IN  [db |-> s2, id |-> Min({x.section_id : x \in SectionRows(s2, term_id, crn)})]

\* faulty variant: the INSERT without the DELETE
ReplaceMeetings_append(s, section_id, start, end, days, bldg, room, loc) ==
    [s EXCEPT !.meetings = @ \cup
        {[meeting_id |-> NextRowid({m.meeting_id : m \in s.meetings}),
          section_id |-> section_id, start_time |-> start, end_time |-> end,
          days |-> days, bldg |-> bldg, room |-> room, location |-> loc]}]

\* faulty variant: DELETE FROM meetings WHERE meeting_id=?
ReplaceMeetings_wrongKey(s, section_id, start, end, days, bldg, room, loc) ==
    LET kept == {m \in s.meetings : m.meeting_id # section_id}
    IN  [s EXCEPT !.meetings = kept \cup
            {[meeting_id |-> NextRowid({m.meeting_id : m \in kept}),
              section_id |-> section_id, start_time |-> start, end_time |-> end,
              days |-> days, bldg |-> bldg, room |-> room, location |-> loc]}]

\* DELETE FROM meetings WHERE section_id=? followed by the INSERT of one row
ReplaceMeetings(s, section_id, start, end, days, bldg, room, loc) ==
    LET kept == {m \in s.meetings : m.section_id # section_id}
    IN  [s EXCEPT !.meetings = kept \cup
            {[meeting_id |-> NextRowid({m.meeting_id : m \in kept}),
              section_id |-> section_id, start_time |-> start, end_time |-> end,
              days |-> days, bldg |-> bldg, room |-> room, location |-> loc]}]

\* faulty variant: a plain INSERT into a table without the primary key
link_instructor_to_section_plain(s, section_id, instructor_id, role) ==
    [s EXCEPT !.section_instructors = @ \cup
        {[rowid |-> NextRowid({l.rowid : l \in s.section_instructors}),
          section_id |-> section_id, instructor_id |-> instructor_id, role |-> role]}]

\* INSERT OR IGNORE INTO section_instructors: the primary key is the pair
\* (section_id, instructor_id), and a row that conflicts with it is dropped
\* without an error
link_instructor_to_section(s, section_id, instructor_id, role) ==
    IF \E l \in s.section_instructors : l.section_id = section_id /\ l.instructor_id = instructor_id
    THEN s
    ELSE [s EXCEPT !.section_instructors = @ \cup
            {[rowid |-> NextRowid({l.rowid : l \in s.section_instructors}),
              section_id |-> section_id, instructor_id |-> instructor_id, role |-> role]}]

\* ---- ingest_all_terms.py: ingest one CSV ----
\* A file is [name, headers, rows]: the file name, csv fieldnames, and the
\* DictReader rows in order.

\* (semester, year) the whole file is stored under, derived from its first row
FileTerm(f) ==
    LET keymap == build_keymap(f.headers)
        semester == getv(f.rows[1], keymap, "Semester")
        year_str == getv(f.rows[1], keymap, "Year")
    IN  IF is_missing(semester) \/ is_missing(year_str)
        THEN term_from_filename(f.name)
        ELSE IF ~IsNone(PyFloat(Get(year_str))) /\ IsFinite(Get(PyFloat(Get(year_str))))
        THEN <<Get(semester), Some(TruncFloat(Get(PyFloat(Get(year_str)))))>>
        ELSE <<Get(semester), term_from_filename(f.name)[2]>>

\* the "Instructors" block of the row loop
IngestInstructor(s, keymap, r, section_id) ==
    LET inst_name == OrNone(getv(r, keymap, "Instructor"))
        ins == get_instructor_id(s, inst_name, getv(r, keymap, "NetId"), getv(r, keymap, "Email"))
    IN  IF IsNone(inst_name) THEN s
        ELSE IF IsNone(ins.id) THEN ins.db
        ELSE link_instructor_to_section(ins.db, section_id, Get(ins.id), None)

\* one iteration of the row loop: [db |-> store afterwards, processed |->
\* FALSE when the row is skipped]
ingest_row(s, keymap, term_id, r) ==
    LET subj == getv(r, keymap, "Subj")
        number == getv(r, keymap, "Number")
        title == getv(r, keymap, "Title")
        crn == getv(r, keymap, "Comp Numb")
        lec == getv(r, keymap, "Lec Lab")
        credits == parse_credits(getv(r, keymap, "Credits"))
        max_enr == to_int(getv(r, keymap, "Max Enrollment"))
        cur_enr == to_int(getv(r, keymap, "Current Enrollment"))
        sub == get_subject_id(s, subj)
        crs == get_course_id(sub.db, Get(sub.id), number, title)
        sec == upsert_section_and_get_id(crs.db, Get(crs.id), term_id, Get(crn), lec,
                                         credits[1], credits[2], max_enr, cur_enr)
        met == ReplaceMeetings(sec.db, sec.id,
                               OrNone(getv(r, keymap, "Start Time")),
                               OrNone(getv(r, keymap, "End Time")),
                               OrNone(getv(r, keymap, "Days")),
                               OrNone(getv(r, keymap, "Bldg")),
                               OrNone(getv(r, keymap, "Room")),
                               OrNone(getv(r, keymap, "Location")))
    IN  IF is_missing(subj) \/ is_missing(number) \/ is_missing(title) \/ is_missing(crn)
        THEN [db |-> s, processed |-> FALSE]
        ELSE IF IsNone(sub.id)
        THEN [db |-> sub.db, processed |-> FALSE]
        ELSE [db |-> IngestInstructor(met, keymap, r, sec.id), processed |-> TRUE]

\* ---- ingest_uvm_current.py: helpers ----
\* (row.get(k) or "").strip()
CellStrip(r, k) == norm(RowGet(r, k))
\* (row.get(k) or "").strip() or None
CellOrNone(r, k) == OrNone(Some(norm(RowGet(r, k))))

Upper(s) == [i \in DOMAIN s |-> UpperChar(s[i])]
CreditsBlank == {<<>>, <<"N", "/", "A">>, <<"N", "A">>, <<"N", "O", "N", "E">>}

parse_credits_current(x) ==
    LET s == norm(x)
        i == CHOOSE j \in DOMAIN s : s[j] = "-" /\ \A k \in 1..(j - 1) : s[k] # "-"
        a == PyFloat(SubSeq(s, 1, i - 1))
        b == PyFloat(Drop(s, i))
    IN  IF IsNone(x) \/ Get(x) = <<>> \/ Upper(s) \in CreditsBlank THEN <<None, None>>
        ELSE IF \E j \in DOMAIN s : s[j] = "-"
        THEN (IF IsNone(a) \/ IsNone(b) THEN <<None, None>> ELSE <<a, b>>)
        ELSE <<PyFloat(s), PyFloat(s)>>

\* int(str(v).strip()); str(None) is no integer literal
to_int_or_none(v) == IF IsNone(v) THEN None ELSE PyInt(Get(v))

semester_title(x) ==
    LET s == Lower(norm(x))
    IN  IF s \in SemesterWords THEN Some(Capitalize(s)) ELSE None

RECURSIVE StripAll(_)
StripAll(parts) ==
    IF parts = <<>> THEN <<>>
    ELSE IF Strip(Head(parts)) = <<>> THEN StripAll(Tail(parts))
    ELSE <<Strip(Head(parts))>> \o StripAll(Tail(parts))

smart_instructor_split(instructor_field) ==
    LET s0 == Strip(instructor_field)
        s == Replace(Replace(Replace(s0, <<" ", "/", " ">>, <<";">>),
                             <<" ", "&", " ">>, <<";">>),
                     <<" ", "a", "n", "d", " ">>, <<";">>)
        parts == StripAll(Split(s, ";"))
    IN  IF s0 = <<>> THEN <<>>
        ELSE IF parts # <<>> THEN parts
        ELSE <<Strip(instructor_field)>>

\* ---- ingest_uvm_current.py: get_or_create, one instance per call site ----
get_or_create_term(s, semester, year) ==
    LET hit == {t \in s.terms : t.semester = semester /\ t.year = year}
        new == NextRowid({t.term_id : t \in s.terms})
    IN  IF hit # {} THEN [db |-> s, id |-> Min({t.term_id : t \in hit})]
        ELSE [db |-> [s EXCEPT !.terms = @ \cup {[term_id |-> new, semester |-> semester, year |-> year]}],
              id |-> new]

get_or_create_subject(s, code) ==
    LET hit == {r \in s.subjects : r.code = code}
        new == NextRowid({r.subject_id : r \in s.subjects})
    IN  IF hit # {} THEN [db |-> s, id |-> Min({r.subject_id : r \in hit})]
        ELSE [db |-> [s EXCEPT !.subjects = @ \cup {[subject_id |-> new, code |-> code]}], id |-> new]

get_or_create_course(s, subject_id, number, title) ==
    LET hit == {c \in s.courses : c.subject_id = subject_id /\ c.course_number = number /\ c.title = title}
        new == NextRowid({c.course_id : c \in s.courses})
    IN  IF hit # {} THEN [db |-> s, id |-> Min({c.course_id : c \in hit})]
        ELSE [db |-> [s EXCEPT !.courses = @ \cup
                        {[course_id |-> new, subject_id |-> subject_id,
                          course_number |-> number, title |-> title]}],
              id |-> new]

\* faulty variant: WHERE name=? AND netid=? AND email=?, which no NULL satisfies
get_or_create_instructor_eq(s, name, netid, email) ==
    LET hit == {i \in s.instructors : /\ i.name = name
                                      /\ ~IsNone(netid) /\ i.netid = netid
                                      /\ ~IsNone(email) /\ i.email = email}
        s2 == InsertInstructor(s, name, netid, email)
    IN  IF hit # {} THEN [db |-> s, id |-> Min({i.instructor_id : i \in hit})]
        ELSE [db |-> s2, id |-> Max({i.instructor_id : i \in s2.instructors})]

\* WHERE name=? AND netid IS ? AND email IS ?
get_or_create_instructor(s, name, netid, email) ==
    LET hit == {i \in s.instructors : i.name = name /\ i.netid = netid /\ i.email = email}
        s2 == InsertInstructor(s, name, netid, email)
    IN  IF hit # {} THEN [db |-> s, id |-> Min({i.instructor_id : i \in hit})]
        ELSE [db |-> s2, id |-> Max({i.instructor_id : i \in s2.instructors})]

upsert_section(s, course_id, term_id, crn, lec_lab, cmin, cmax, max_enr, cur_enr) ==
    upsert_section_and_get_id(s, course_id, term_id, crn, lec_lab, cmin, cmax, max_enr, cur_enr).db

\* the loop over instructor_names
RECURSIVE LinkNames(_, _, _, _, _)
LinkNames(s, section_id, names, netid, email) ==
    IF names = <<>> THEN s
    ELSE LET ins == get_or_create_instructor(s, Head(names), netid, email)
         IN  LinkNames(link_instructor_to_section(ins.db, section_id, ins.id, None),
                       section_id, Tail(names), netid, email)

\* one iteration of the row loop of load_current_csv
load_current_row(s, r) ==
    LET subj == CellStrip(r, "Subj")
        number == CellStrip(r, "Number")
        title == CellStrip(r, "Title")
        crn == CellStrip(r, "Comp Numb")
        lec_lab == CellStrip(r, "Lec Lab")
        credits == parse_credits_current(RowGet(r, "Credits"))
        max_enrl == to_int_or_none(RowGet(r, "Max Enrollment"))
        cur_enrl == to_int_or_none(RowGet(r, "Current Enrollment"))
        semester == semester_title(RowGet(r, "Semester"))
        year == to_int_or_none(RowGet(r, "Year"))
        trm == get_or_create_term(s, Get(semester), Get(year))
        sub == get_or_create_subject(trm.db, subj)
        crs == get_or_create_course(sub.db, sub.id, number, title)
        ups == upsert_section(crs.db, crs.id, trm.id, crn, Some(lec_lab),
                              credits[1], credits[2], max_enrl, cur_enrl)
        section_id == Min({x.section_id : x \in SectionRows(ups, trm.id, crn)})
        met == ReplaceMeetings(ups, section_id,
                               CellOrNone(r, "Start Time"), CellOrNone(r, "End Time"),
                               CellOrNone(r, "Days"), CellOrNone(r, "Bldg"),
                               CellOrNone(r, "Room"), CellOrNone(r, "Location"))
    IN  IF \/ subj = <<>> \/ number = <<>> \/ title = <<>> \/ crn = <<>>
           \/ IsNone(semester) \/ IsNone(year) \/ year = Some(0)
        THEN [db |-> s, processed |-> FALSE]
        ELSE [db |-> LinkNames(met, section_id,
                               smart_instructor_split(CellStrip(r, "Instructor")),
                               CellOrNone(r, "NetId"), CellOrNone(r, "Email")),
              processed |-> TRUE]

\* ------------------------------------------------------------------------
\* Input files.  Bounds of the model.
\* ------------------------------------------------------------------------
MaxRows == 2
MaxFiles == 2
MaxRuns == 2

T_CS == <<"C", "S">>
T_MATH == <<"M", "A", "T", "H">>
T_101 == <<"1", "0", "1">>
T_Intro == <<"I", "n", "t", "r", "o">>
T_Data == <<"D", "a", "t", "a">>
T_10001 == <<"1", "0", "0", "0", "1">>
T_10002 == <<"1", "0", "0", "0", "2">>
T_2025 == <<"2", "0", "2", "5">>
\* instructor cells: "Li, Al", "Wu, Bo" and both in one cell
T_LiAl == <<"L", "i", ",", " ", "A", "l">>
T_WuBo == <<"W", "u", ",", " ", "B", "o">>
T_LiAl_WuBo == T_LiAl \o <<";", " ">> \o T_WuBo

STANDARD_ORDER ==
    <<"Subj", "Number", "Title", "Comp Numb", "Lec Lab", "Credits", "Start Time",
      "End Time", "Days", "Bldg", "Room", "Location", "Instructor", "NetId", "Email",
      "Max Enrollment", "Current Enrollment", "Semester", "Year">>

\* crn 10001 of Fall 2025 at 20/30
Row1 ==
    "Subj" :> T_CS @@ "Number" :> T_101 @@ "Title" :> T_Intro @@ "Comp Numb" :> T_10001
    @@ "Lec Lab" :> <<"L", "E", "C">> @@ "Credits" :> <<"3">>
    @@ "Start Time" :> <<"0", "9", ":", "0", "0">> @@ "End Time" :> <<"0", "9", ":", "5", "0">>
    @@ "Days" :> <<"M", "W", "F">> @@ "Bldg" :> <<"V">> @@ "Room" :> <<"1">>
    @@ "Location" :> <<"V", " ", "1">>
    @@ "Instructor" :> T_LiAl @@ "NetId" :> <<"a", "l">> @@ "Email" :> <<>>
    @@ "Max Enrollment" :> <<"3", "0">> @@ "Current Enrollment" :> <<"2", "0">>
    @@ "Semester" :> S_Fall @@ "Year" :> T_2025
\* the same crn later: 25/40 under another title, with another meeting
\* pattern, type, credit range and instructor
Row2 ==
    "Subj" :> T_CS @@ "Number" :> T_101 @@ "Title" :> T_Data @@ "Comp Numb" :> <<" ">> \o T_10001
    @@ "Lec Lab" :> <<"L", "A", "B">> @@ "Credits" :> <<"1", " ", "t", "o", " ", "3">>
    @@ "Start Time" :> <<>> @@ "End Time" :> <<>>
    @@ "Days" :> <<"T", "R">> @@ "Bldg" :> <<"K">> @@ "Room" :> <<"2">>
    @@ "Location" :> <<"K", " ", "2">>
    @@ "Instructor" :> T_WuBo @@ "NetId" :> <<>> @@ "Email" :> <<>>
    @@ "Max Enrollment" :> <<"4", "0">> @@ "Current Enrollment" :> <<"2", "5">>
    @@ "Semester" :> <<"f", "a", "l", "l", " ">> @@ "Year" :> T_2025
\* a row without reference number and without term columns
Row3 ==
    "Subj" :> T_CS @@ "Number" :> T_101 @@ "Title" :> T_Intro @@ "Comp Numb" :> <<>>
    @@ "Lec Lab" :> <<>> @@ "Credits" :> <<>>
    @@ "Start Time" :> <<>> @@ "End Time" :> <<>>
    @@ "Days" :> <<>> @@ "Bldg" :> <<>> @@ "Room" :> <<>> @@ "Location" :> <<>>
    @@ "Instructor" :> T_LiAl @@ "NetId" :> <<>> @@ "Email" :> <<>>
    @@ "Max Enrollment" :> <<>> @@ "Current Enrollment" :> <<"n", "a", "n">>
    @@ "Semester" :> <<>> @@ "Year" :> <<>>
\* another subject and section, two instructors in one cell
Row4 ==
    "Subj" :> T_MATH @@ "Number" :> T_101 @@ "Title" :> T_Intro @@ "Comp Numb" :> T_10002
    @@ "Lec Lab" :> <<"L", "E", "C">> @@ "Credits" :> <<"3">>
    @@ "Start Time" :> <<"0", "9", ":", "0", "0">> @@ "End Time" :> <<"0", "9", ":", "5", "0">>
    @@ "Days" :> <<"M", "W", "F">> @@ "Bldg" :> <<"V">> @@ "Room" :> <<"1">>
    @@ "Location" :> <<"V", " ", "1">>
    @@ "Instructor" :> T_LiAl_WuBo @@ "NetId" :> <<>> @@ "Email" :> <<>>
    @@ "Max Enrollment" :> <<"3", "0">> @@ "Current Enrollment" :> <<"3", "0">>
    @@ "Semester" :> S_Fall @@ "Year" :> T_2025

\* the rows a file may hold; a file names them by their index here
BaseRows == <<Row1, Row2, Row3, Row4>>

\* a pre-cleaning extract: other header names, fewer columns
LegacyHeaders == <<"Subject", "#", "Title", "CRN", "Instructor", "Enrolled", "Days">>
LegacyCanon ==
    "Subject" :> "Subj" @@ "#" :> "Number" @@ "Title" :> "Title" @@ "CRN" :> "Comp Numb"
    @@ "Instructor" :> "Instructor" @@ "Enrolled" :> "Current Enrollment" @@ "Days" :> "Days"
Legacy(b) == [h \in Range(LegacyHeaders) |-> b[LegacyCanon[h]]]

N_current == <<"u","v","m","_","c","u","r","r","e","n","t","_","s","e","c","t","i","o","n","s">> \o S_cleaned_csv
N_spring_2025 == S_uvm_ \o S_spring \o <<"_", "2", "0", "2", "5">> \o S_cleaned_csv
\* the names a directory may hold, in sorted order; the first holds the
\* cleaned columns, the second is a pre-cleaning extract
FileNames == <<N_current, N_spring_2025>>

\* A directory entry is [k, rs]: the index of its name in FileNames and the
\* indices of its rows in BaseRows.
RowSeqs == UNION {[1..n -> DOMAIN BaseRows] : n \in 0..MaxRows}

\* the file of a directory entry, as csv.DictReader presents it
FileOf(e) ==
    IF e.k = 2
    THEN [name |-> FileNames[e.k], headers |-> LegacyHeaders,
          rows |-> [i \in DOMAIN e.rs |-> Legacy(BaseRows[e.rs[i]])]]
    ELSE [name |-> FileNames[e.k], headers |-> STANDARD_ORDER,
          rows |-> [i \in DOMAIN e.rs |-> BaseRows[e.rs[i]]]]

\* strictly increasing name indices: sorted(glob("*_cleaned.csv"))
NameSeqs ==
    {q \in UNION {[1..n -> DOMAIN FileNames] : n \in 0..MaxFiles} :
        \A i, j \in DOMAIN q : i < j => q[i] < q[j]}
Dirs ==
    UNION {{[i \in DOMAIN q |-> [k |-> q[i], rs |-> rs[i]]] : rs \in [DOMAIN q -> RowSeqs]} : q \in NameSeqs}
\* RAW_CSV of ingest_uvm_current.py
CurrentDirs == {<<[k |-> 1, rs |-> rs]>> : rs \in RowSeqs}

\* ------------------------------------------------------------------------
\* rmp_scrape.py: configuration, catalog lookup, name keys, rating columns
\* ------------------------------------------------------------------------
TARGET_SEMESTER == S_Fall
TARGET_YEAR == 2025
DRY_RUN == FALSE
\* stop after N matches; None = all
LIMIT_MATCHES == None

\* the characters of the model in the order of their code points
CharOrder == <<"\t", " ", ",", ".", "/">> \o DigitChars \o <<";", "?">> \o UpperAlpha \o <<"_">> \o LowerAlpha
Ord(c) == IndexOf(CharOrder, c)
\* a < b under SQLite's BINARY collation
RECURSIVE TextLess(_, _)
TextLess(a, b) ==
    IF b = <<>> THEN FALSE
    ELSE IF a = <<>> THEN TRUE
    ELSE IF Head(a) = Head(b) THEN TextLess(Tail(a), Tail(b))
    ELSE Ord(Head(a)) < Ord(Head(b))

\* ORDER BY i.name; rows of one name come out in rowid order
RECURSIVE OrderByName(_)
OrderByName(S) ==
    IF S = {} THEN <<>>
    ELSE LET m == CHOOSE x \in S : \A y \in S \ {x} :
                      \/ TextLess(x.name, y.name)
                      \/ x.name = y.name /\ x.instructor_id < y.instructor_id
         IN  <<m>> \o OrderByName(S \ {m})

\* faulty variant: the query without its WHERE t.semester = ? AND t.year = ?
get_instructors_for_term_all(s, semester, year) ==
    OrderByName({[instructor_id |-> i.instructor_id, name |-> i.name,
                  netid |-> i.netid, email |-> i.email] :
        i \in {j \in s.instructors :
                 \E si \in s.section_instructors, x \in s.sections, t \in s.terms :
                    /\ si.instructor_id = j.instructor_id
                    /\ x.section_id = si.section_id
                    /\ t.term_id = x.term_id}})

get_instructors_for_term(s, semester, year) ==
    OrderByName({[instructor_id |-> i.instructor_id, name |-> i.name,
                  netid |-> i.netid, email |-> i.email] :
        i \in {j \in s.instructors :
                 \E si \in s.section_instructors, x \in s.sections, t \in s.terms :
                    /\ si.instructor_id = j.instructor_id
                    /\ x.section_id = si.section_id
                    /\ t.term_id = x.term_id
                    /\ t.semester = semester /\ t.year = year}})

\* the characters of s at the positions in K, in order
RECURSIVE Pick(_, _, _)
Pick(s, K, i) ==
    IF i > Len(s) THEN <<>>
    ELSE (IF i \in K THEN <<s[i]>> ELSE <<>>) \o Pick(s, K, i + 1)

\* re.sub(r"\b([A-Za-z])\.\b", r"\1", s): the period goes when a single
\* letter stands before it at a word boundary and a word character
\* follows it
DropInitialPeriods(s) ==
    Pick(s, {j \in DOMAIN s :
                ~(/\ s[j] = "."
                  /\ j >= 2 /\ IsAlpha(s[j - 1])
                  /\ (j = 2 \/ ~IsWord(s[j - 2]))
                  /\ j < Len(s) /\ IsWord(s[j + 1]))}, 1)

\* faulty variant: a name with a comma is left in the order it came in
normalize_name_noSwap(name0) ==
    Strip(DropInitialPeriods(CollapseWs(Strip(name0))))

normalize_name(name0) ==
    LET name == Strip(name0)
        split == Split(name, ",")
        parts == [i \in DOMAIN split |-> Strip(split[i])]
        swapped == IF Len(parts) >= 2
                   THEN JoinSp(<<parts[2]>> \o SubSeq(parts, 3, Len(parts)) \o <<parts[1]>>)
                   ELSE name
    IN  Strip(DropInitialPeriods(CollapseWs(swapped)))

key_name(name) ==
    LET s == Lower(normalize_name(name))
        kept == Pick(s, {j \in DOMAIN s : IsLower(s[j]) \/ IsSpace(s[j])}, 1)
    IN  Strip(CollapseWs(kept))

\* db_map.setdefault(key_name(p["name"]), []).append(p)
RECURSIVE RowsOfKey(_, _)
RowsOfKey(db_profs, k) ==
    IF db_profs = <<>> THEN <<>>
    ELSE (IF key_name(Head(db_profs).name) = k THEN <<Head(db_profs)>> ELSE <<>>)
         \o RowsOfKey(Tail(db_profs), k)
BuildDbMap(db_profs) ==
    [k \in {key_name(p.name) : p \in Range(db_profs)} |-> RowsOfKey(db_profs, k)]

\* str(n)
RECURSIVE NatText(_)
NatText(n) ==
    IF n < 10 THEN <<DigitChars[n + 1]>>
    ELSE NatText(n \div 10) \o <<DigitChars[(n % 10) + 1]>>

\* sep.join(parts)
RECURSIVE Join(_, _)
Join(sep, parts) ==
    IF parts = <<>> THEN <<>>
    ELSE IF Len(parts) = 1 THEN parts[1]
    ELSE parts[1] \o <<sep>> \o Join(sep, Tail(parts))

\* json.dumps of a list of strings, as the sequence of its lexemes
json_dumps_list(xs) ==
    <<"[">> \o Join(", ", [i \in DOMAIN xs |-> <<"\"", xs[i], "\"">>]) \o <<"]">>
\* json.dumps of a dict of optional integers, given as its items in
\* insertion order
json_dumps_dict(items) ==
    <<"{">> \o Join(", ", [i \in DOMAIN items |->
                 <<"\"", items[i][1], "\"", ": ">>
                 \o (IF IsNone(items[i][2]) THEN <<"null">> ELSE NatText(Get(items[i][2])))])
    \o <<"}">>

S_rmp_site == <<"https://www.ratemyprofessors.com">>
S_professor_ == <<"/", "p", "r", "o", "f", "e", "s", "s", "o", "r", "/">>

\* a list or dict is truthy when it is not empty: x or default
OrDefault(x, default) == IF x = <<>> THEN default ELSE x

\* faulty variant: COALESCE(?, column) for every rating column
upsert_rmp_merge(s, instructor_id, parsed, now) ==
    LET rmp_id == parsed.professor_legacy_id
        profile_url == IF ~IsNone(parsed.links.profile_url) /\ Get(parsed.links.profile_url) # <<>>
                       THEN parsed.links.profile_url
                       ELSE IF ~IsNone(rmp_id) /\ Get(rmp_id) # 0
                       THEN Some(S_rmp_site \o S_professor_ \o NatText(Get(rmp_id)))
                       ELSE None
        keep(new, old) == IF IsNone(new) THEN old ELSE new
        keepJson(new, empty, old) == IF new = Some(empty) /\ ~IsNone(old) THEN old ELSE new
    IN  [s EXCEPT !.instructors =
            {IF i.instructor_id # instructor_id THEN i
             ELSE [i EXCEPT !.rmp_id = keep(rmp_id, @),
                            !.rmp_url = keep(profile_url, @),
                            !.rmp_avg_rating = keep(parsed.avg_rating, @),
                            !.rmp_num_ratings = keep(parsed.num_ratings, @),
                            !.rmp_would_take_again = keep(parsed.would_take_again_percent, @),
                            !.rmp_difficulty = keep(parsed.difficulty, @),
                            !.rmp_top_tags_json =
                                keepJson(Some(json_dumps_list(OrDefault(parsed.top_tags, <<>>))),
                                         json_dumps_list(<<>>), @),
                            !.rmp_rating_distribution_json =
                                keepJson(Some(json_dumps_dict(OrDefault(parsed.rating_distribution, <<>>))),
                                         json_dumps_dict(<<>>), @),
                            !.rmp_last_refreshed = Some(now)]
             : i \in s.instructors}]

\* UPDATE instructors SET ... WHERE instructor_id = ?; conn.commit()
upsert_rmp(s, instructor_id, parsed, now) ==
    LET rmp_id == parsed.professor_legacy_id
        \* a or b: an empty string and the integer 0 are falsy
        profile_url == IF ~IsNone(parsed.links.profile_url) /\ Get(parsed.links.profile_url) # <<>>
                       THEN parsed.links.profile_url
                       ELSE IF ~IsNone(rmp_id) /\ Get(rmp_id) # 0
                       THEN Some(S_rmp_site \o S_professor_ \o NatText(Get(rmp_id)))
                       ELSE None
    IN  [s EXCEPT !.instructors =
            {IF i.instructor_id # instructor_id THEN i
             ELSE [i EXCEPT !.rmp_id = rmp_id,
                            !.rmp_url = profile_url,
                            !.rmp_avg_rating = parsed.avg_rating,
                            !.rmp_num_ratings = parsed.num_ratings,
                            !.rmp_would_take_again = parsed.would_take_again_percent,
                            !.rmp_difficulty = parsed.difficulty,
                            !.rmp_top_tags_json =
                                Some(json_dumps_list(OrDefault(parsed.top_tags, <<>>))),
                            !.rmp_rating_distribution_json =
                                Some(json_dumps_dict(OrDefault(parsed.rating_distribution, <<>>))),
                            !.rmp_last_refreshed = Some(now)]
             : i \in s.instructors}]

\* get_card_info: <<display, href>>, both None for an anchor that is no
\* professor link
get_card_info(card) ==
    IF IsNone(card.href) \/ Get(card.href) = <<>> \/ ~StartsWith(Get(card.href), S_professor_)
    THEN <<None, None>>
    ELSE <<IF IsNone(card.display) \/ Get(card.display) = <<>> THEN None
           ELSE Some(Strip(Get(card.display))),
           Some(Strip(Get(card.href)))>>

\* the longest run of digits at the head of s
RECURSIVE LeadingDigits(_)
LeadingDigits(s) ==
    IF s # <<>> /\ IsDigit(Head(s)) THEN <<Head(s)>> \o LeadingDigits(Tail(s)) ELSE <<>>

\* m = re.search(r"/professor/(\d+)", href); pid = m.group(1) if m else href
CardPid(href) ==
    LET n == Len(S_professor_)
        hits == {i \in DOMAIN href : /\ i + n <= Len(href)
                                     /\ SubSeq(href, i, i + n - 1) = S_professor_
                                     /\ IsDigit(href[i + n])}
    IN  IF hits = {} THEN href
        ELSE LeadingDigits(Drop(href, Min(hits) + n - 1))

\* faulty variant: no membership test before seen_ids.add(pid)
AlreadySeen_never(pid, seen) == FALSE

\* if pid in seen_ids: continue
AlreadySeen(pid, seen) == pid \in seen

\* faulty variant: the counter goes up after every scan
NextStagnant_always(stagnant, total, last) == stagnant + 1

\* stagnant_loops + 1 if total == last_processed else 0
NextStagnant(stagnant, total, last) == IF total = last THEN stagnant + 1 ELSE 0

\* if stagnant_loops >= 4: break
StagnationLimit == 4

\* ------------------------------------------------------------------------
\* What an accepted row says, as it is read by each ingester: the history
\* of the latest row per (semester, year, crn) is kept from these.
\* ------------------------------------------------------------------------
RowFactsAllTerms(f, r) ==
    LET keymap == build_keymap(f.headers)
        credits == parse_credits(getv(r, keymap, "Credits"))
        lacking == \/ is_missing(getv(r, keymap, "Subj"))
                   \/ is_missing(getv(r, keymap, "Number"))
                   \/ is_missing(getv(r, keymap, "Title"))
                   \/ is_missing(getv(r, keymap, "Comp Numb"))
    IN  [lacking |-> lacking, accepted |-> ~lacking,
         semester |-> Some(FileTerm(f)[1]), year |-> FileTerm(f)[2],
         crn |-> norm(getv(r, keymap, "Comp Numb")),
         subj |-> norm(getv(r, keymap, "Subj")),
         number |-> norm(getv(r, keymap, "Number")),
         title |-> norm(getv(r, keymap, "Title")),
         lec_lab |-> getv(r, keymap, "Lec Lab"),
         credits_min |-> credits[1], credits_max |-> credits[2],
         max_enrollment |-> to_int(getv(r, keymap, "Max Enrollment")),
         current_enrollment |-> to_int(getv(r, keymap, "Current Enrollment")),
         start_time |-> OrNone(getv(r, keymap, "Start Time")),
         end_time |-> OrNone(getv(r, keymap, "End Time")),
         days |-> OrNone(getv(r, keymap, "Days")),
         bldg |-> OrNone(getv(r, keymap, "Bldg")),
         room |-> OrNone(getv(r, keymap, "Room")),
         location |-> OrNone(getv(r, keymap, "Location"))]

RowFactsCurrent(r) ==
    LET credits == parse_credits_current(RowGet(r, "Credits"))
        semester == semester_title(RowGet(r, "Semester"))
        year == to_int_or_none(RowGet(r, "Year"))
        lacking == \/ CellStrip(r, "Subj") = <<>> \/ CellStrip(r, "Number") = <<>>
                   \/ CellStrip(r, "Title") = <<>> \/ CellStrip(r, "Comp Numb") = <<>>
    IN  [lacking |-> lacking,
         accepted |-> ~(lacking \/ IsNone(semester) \/ IsNone(year) \/ year = Some(0)),
         semester |-> semester, year |-> year,
         crn |-> CellStrip(r, "Comp Numb"),
         subj |-> CellStrip(r, "Subj"),
         number |-> CellStrip(r, "Number"),
         title |-> CellStrip(r, "Title"),
         lec_lab |-> Some(CellStrip(r, "Lec Lab")),
         credits_min |-> credits[1], credits_max |-> credits[2],
         max_enrollment |-> to_int_or_none(RowGet(r, "Max Enrollment")),
         current_enrollment |-> to_int_or_none(RowGet(r, "Current Enrollment")),
         start_time |-> CellOrNone(r, "Start Time"),
         end_time |-> CellOrNone(r, "End Time"),
         days |-> CellOrNone(r, "Days"),
         bldg |-> CellOrNone(r, "Bldg"),
         room |-> CellOrNone(r, "Room"),
         location |-> CellOrNone(r, "Location")]

Counts(s) ==
    [terms |-> Cardinality(s.terms), subjects |-> Cardinality(s.subjects),
     courses |-> Cardinality(s.courses), instructors |-> Cardinality(s.instructors),
     sections |-> Cardinality(s.sections), meetings |-> Cardinality(s.meetings),
     section_instructors |-> Cardinality(s.section_instructors)]

\* ------------------------------------------------------------------------
\* Ingestion as a state machine
\* ------------------------------------------------------------------------
VARIABLES
    db,         \* the committed content of university_courses.db
    wk,         \* the content as the ingester's connection sees it
    prog,       \* "all_terms" (ingest_all_terms.py) or "current" (ingest_uvm_current.py)
    dir,        \* the files the program reads, in the order it reads them
    pc,         \* "idle", "loop", "rows", "done", "open_failed", "row_failed", "killed"
    run,        \* number of runs of the program started so far
    fileNo,     \* files of dir completed in this run
    rowNo,      \* rows of the current file handled
    term_id,    \* ingest_csv's term_id for the current file
    hist,       \* history: where the latest accepted row per (semester, year, crn) is, as wk has it
    histC,      \* history: the same as of the last commit
    stable,     \* history: the store when the last file completed
    doneCounts, \* history: row counts when an earlier run returned normally
    processed,  \* ingest_csv's counters for the current file
    skipped,
    inserted,   \* load_current_csv's counters
    updated,
    \* rmp_scrape.py
    cpc,            \* "off", "top", "scan", "match", "finished"
    env,            \* "frozen": the listing never grows and Show More never succeeds; "live"
    page,           \* the rendered cards, as indices into CardPool
    db_map,         \* matching key -> catalog rows of the target term
    total,
    last_processed,
    stagnant_loops,
    idx,            \* cards of the listing the for loop has passed
    seen_ids,
    matches,
    pending,        \* the rows of db_map[k] the inner loop has not reached
    procs,          \* history: the card ids that went on to matching, in order
    newInCycle,     \* history: cards enumerated by the scan of this cycle
    stagnantCycles, \* history: consecutive cycles without a new card, growth or click
    lastSnap,       \* history: instructor_id -> the snapshot of its latest upsert_rmp
    limit_matches,  \* what LIMIT_MATCHES is set to for this run of the crawl
    dry_run,        \* what DRY_RUN is set to for this run of the crawl
    clickLog,       \* history: what click_show_more and scroll_to_bottom did in the cycle just ended
    \* a call of one of the helper functions
    fn,             \* the function called, "none" when no call is modelled
    arg,            \* its argument
    ret             \* None before it returns, Some(value) afterwards

ingestVars == <<prog, dir, pc, run, fileNo, rowNo, term_id, hist, histC, stable, doneCounts>>
crawlVars == <<cpc, env, page, db_map, total, last_processed, stagnant_loops, idx,
               seen_ids, matches, pending, procs, newInCycle, stagnantCycles, lastSnap>>
countVars == <<processed, skipped, inserted, updated>>
fnVars == <<fn, arg, ret>>
vars == <<db, wk, ingestVars, countVars, crawlVars, limit_matches, dry_run, fnVars, clickLog>>

\* faulty variant: a connection in autocommit mode (isolation_level=None)
Durable_autocommit(committed, view) == view

\* What the database file holds of a connection's writes before
\* conn.commit(): sqlite3.connect() leaves isolation_level at its default,
\* so the first INSERT/UPDATE/DELETE opens a transaction and nothing of it
\* is durable.
Durable(committed, view) == committed

\* no cycle of the crawl has reached click_show_more
NoClick == [tried |-> <<>>, firstOk |-> 0, clicked |-> FALSE, scrolled |-> FALSE]

\* rmp_scrape.py has not been started
CrawlOff ==
    /\ clickLog = NoClick
    /\ cpc = "off"
    /\ env = "frozen"
    /\ page = <<>>
    /\ db_map = <<>>
    /\ total = 0
    /\ last_processed = 0
    /\ stagnant_loops = 0
    /\ idx = 0
    /\ seen_ids = {}
    /\ matches = <<>>
    /\ pending = <<>>
    /\ procs = <<>>
    /\ newInCycle = 0
    /\ stagnantCycles = 0
    /\ lastSnap = <<>>
    /\ limit_matches = LIMIT_MATCHES
    /\ dry_run = DRY_RUN

\* no helper function is called on its own
FnOff ==
    /\ fn = "none"
    /\ arg = <<>>
    /\ ret = None

Init ==
    /\ db = EmptyStore
    /\ wk = EmptyStore
    /\ prog \in {"all_terms", "current"}
    /\ dir \in (IF prog = "all_terms" THEN Dirs ELSE CurrentDirs)
    /\ pc = "idle"
    /\ run = 0
    /\ fileNo = 0
    /\ rowNo = 0
    /\ term_id = 0
    /\ hist = <<>>
    /\ histC = <<>>
    /\ stable = EmptyStore
    /\ doneCounts = None
    /\ processed = 0
    /\ skipped = 0
    /\ inserted = 0
    /\ updated = 0
    /\ CrawlOff
    /\ FnOff

CurFile == FileOf(dir[fileNo + 1])
CurRow == CurFile.rows[rowNo + 1]
\* what the i-th row of directory entry e says to program p
\* Tabulated once, by program, file name, first row of the file (which the
\* batch ingester takes the term from) and row.
FactsTable ==
    [p \in {"all_terms", "current"}, k \in DOMAIN FileNames,
     b1 \in DOMAIN BaseRows, b \in DOMAIN BaseRows |->
        LET f == FileOf([k |-> k, rs |-> <<b1, b>>])
        IN  IF p = "all_terms" THEN RowFactsAllTerms(f, f.rows[2])
            ELSE RowFactsCurrent(f.rows[2])] @@ <<>>
RowFacts(p, e, i) == FactsTable[p, e.k, e.rs[1], e.rs[i]]
CurFacts == RowFacts(prog, dir[fileNo + 1], rowNo + 1)

\* main(): connect; the schema exists, so the CREATE TABLE IF NOT EXISTS
\* statements change nothing
Main ==
    /\ pc \in {"idle", "done"}
    /\ run < MaxRuns
    /\ run' = run + 1
    /\ pc' = "loop"
    /\ fileNo' = 0
    /\ rowNo' = 0
    /\ doneCounts' = IF pc = "done" THEN Some(Counts(db)) ELSE doneCounts
    /\ UNCHANGED <<db, wk, prog, dir, term_id, hist, histC, stable>>
    /\ UNCHANGED countVars
    /\ UNCHANGED <<crawlVars, limit_matches, dry_run, fnVars, clickLog>>

\* ingest_csv on a file without rows returns 0, and main commits
SkipEmptyFile ==
    /\ pc = "loop" /\ fileNo < Len(dir)
    /\ prog = "all_terms"
    /\ CurFile.rows = <<>>
    /\ db' = wk
    /\ stable' = wk
    /\ histC' = hist
    /\ fileNo' = fileNo + 1
    /\ UNCHANGED <<wk, prog, dir, pc, run, rowNo, term_id, hist, doneCounts>>
    /\ UNCHANGED countVars
    /\ UNCHANGED <<crawlVars, limit_matches, dry_run, fnVars, clickLog>>

\* ingest_csv up to the row loop: keymap, term, get_term_id
OpenFile ==
    /\ pc = "loop" /\ fileNo < Len(dir)
    /\ prog = "all_terms"
    /\ CurFile.rows # <<>>
    /\ LET t == get_term_id(wk, FileTerm(CurFile)[1], FileTerm(CurFile)[2])
       IN  /\ ~t.raised
           /\ wk' = t.db
           /\ db' = Durable(db, t.db)
           /\ term_id' = Get(t.id)
    /\ pc' = "rows"
    /\ rowNo' = 0
    /\ UNCHANGED <<prog, dir, run, fileNo, hist, histC, stable, doneCounts>>
    /\ processed' = 0 /\ skipped' = 0
    /\ UNCHANGED <<inserted, updated>>
    /\ UNCHANGED <<crawlVars, limit_matches, dry_run, fnVars, clickLog>>

\* get_term_id raises: nothing catches it, the process ends and the open
\* transaction is discarded
OpenFileRaises ==
    /\ pc = "loop" /\ fileNo < Len(dir)
    /\ prog = "all_terms"
    /\ CurFile.rows # <<>>
    /\ get_term_id(wk, FileTerm(CurFile)[1], FileTerm(CurFile)[2]).raised
    /\ pc' = "open_failed"
    /\ wk' = db
    /\ hist' = histC
    /\ UNCHANGED <<db, prog, dir, run, fileNo, rowNo, term_id, histC, stable, doneCounts>>
    /\ UNCHANGED countVars
    /\ UNCHANGED <<crawlVars, limit_matches, dry_run, fnVars, clickLog>>

\* load_current_csv opens RAW_CSV
OpenCurrent ==
    /\ pc = "loop" /\ fileNo < Len(dir)
    /\ prog = "current"
    /\ pc' = "rows"
    /\ rowNo' = 0
    /\ UNCHANGED <<db, wk, prog, dir, run, fileNo, term_id, hist, histC, stable, doneCounts>>
    /\ inserted' = 0 /\ updated' = 0
    /\ UNCHANGED <<processed, skipped>>
    /\ UNCHANGED <<crawlVars, limit_matches, dry_run, fnVars, clickLog>>

HistKey(facts) == <<facts.semester, facts.year, facts.crn>>

\* what an iteration that ends with the store res.db does to the state
RowEffect(res) ==
    /\ wk' = res.db
    /\ db' = Durable(db, res.db)
    /\ hist' = IF res.processed
               THEN (HistKey(CurFacts) :> [e |-> dir[fileNo + 1], i |-> rowNo + 1]) @@ hist
               ELSE hist
    /\ IF prog = "all_terms"
       THEN /\ processed' = IF res.processed THEN processed + 1 ELSE processed
            /\ skipped' = IF res.processed THEN skipped ELSE skipped + 1
            /\ UNCHANGED <<inserted, updated>>
       ELSE LET pre == Cardinality(wk.sections)
                post == Cardinality(res.db.sections)
            IN  /\ inserted' = IF res.processed /\ post > pre THEN inserted + 1 ELSE inserted
                /\ updated' = IF res.processed /\ post = pre THEN updated + 1 ELSE updated
                /\ UNCHANGED <<processed, skipped>>

\* one iteration of the row loop of ingest_csv / load_current_csv
IngestRow ==
    /\ pc = "rows" /\ rowNo < Len(CurFile.rows)
    /\ RowEffect(IF prog = "all_terms"
                 THEN ingest_row(wk, build_keymap(CurFile.headers), term_id, CurRow)
                 ELSE load_current_row(wk, CurRow))
    /\ rowNo' = rowNo + 1
    /\ UNCHANGED <<prog, dir, pc, run, fileNo, term_id, histC, stable, doneCounts>>
    /\ UNCHANGED <<crawlVars, limit_matches, dry_run, fnVars, clickLog>>

\* a statement of an accepted row raises (sqlite3.Error): nothing catches
\* it, the process ends and the open transaction is discarded
RowRaises ==
    /\ pc = "rows" /\ rowNo < Len(CurFile.rows)
    /\ CurFacts.accepted
    /\ pc' = "row_failed"
    /\ wk' = db
    /\ hist' = histC
    /\ UNCHANGED <<db, prog, dir, run, fileNo, rowNo, term_id, histC, stable, doneCounts>>
    /\ UNCHANGED countVars
    /\ UNCHANGED <<crawlVars, limit_matches, dry_run, fnVars, clickLog>>

\* the file is read to its end: the function returns and its counters go
\* out of scope, conn.commit()
CommitFile ==
    /\ pc = "rows" /\ rowNo = Len(CurFile.rows)
    /\ db' = wk
    /\ stable' = wk
    /\ histC' = hist
    /\ pc' = "loop"
    /\ fileNo' = fileNo + 1
    /\ rowNo' = 0
    /\ UNCHANGED <<wk, prog, dir, run, term_id, hist, doneCounts>>
    /\ processed' = 0 /\ skipped' = 0 /\ inserted' = 0 /\ updated' = 0
    /\ UNCHANGED <<crawlVars, limit_matches, dry_run, fnVars, clickLog>>

\* no file is left: conn.close(), main returns
Done ==
    /\ pc = "loop" /\ fileNo = Len(dir)
    /\ pc' = "done"
    /\ UNCHANGED <<db, wk, prog, dir, run, fileNo, rowNo, term_id, hist, histC, stable, doneCounts>>
    /\ UNCHANGED countVars
    /\ UNCHANGED <<crawlVars, limit_matches, dry_run, fnVars, clickLog>>

\* the process is killed: SQLite rolls the open transaction back
Kill ==
    /\ pc \in {"loop", "rows"}
    /\ pc' = "killed"
    /\ wk' = db
    /\ hist' = histC
    /\ UNCHANGED <<db, prog, dir, run, fileNo, rowNo, term_id, histC, stable, doneCounts>>
    /\ UNCHANGED countVars
    /\ UNCHANGED <<crawlVars, limit_matches, dry_run, fnVars, clickLog>>

Next ==
    \/ Main
    \/ SkipEmptyFile
    \/ OpenFile
    \/ OpenFileRaises
    \/ OpenCurrent
    \/ IngestRow
    \/ RowRaises
    \/ CommitFile
    \/ Done
    \/ Kill

Spec == Init /\ [][Next]_vars

\* ------------------------------------------------------------------------
\* The crawl of rmp_scrape.py as a state machine
\* ------------------------------------------------------------------------
MaxCards == 3
InitCards == 2
MaxLimit == 2

T_AlLi == <<"A", "l", " ", "L", "i">>
\* the cards the listing may render; the last is a card whose name element
\* is not found
CardPool ==
    << [display |-> Some(T_AlLi), href |-> Some(S_professor_ \o <<"1">>)],
       [display |-> Some(<<" ">> \o T_LiAl), href |-> Some(S_professor_ \o <<"3">>)],
       [display |-> Some(<<"W", "u", ",", "B", "o">>), href |-> Some(S_professor_ \o <<"4", "?", "x">>)],
       [display |-> Some(T_AlLi), href |-> Some(<<"/", "s", "c", "h", "o", "o", "l", "/", "1">>)],
       [display |-> None, href |-> Some(S_professor_ \o <<"5">>)] >>

DistKeys == <<"awesome", "great", "good", "ok", "awful">>
\* what parse_professor_page may return: a rated profile, and a profile
\* page without ratings, tags, distribution list and canonical link
Snapshots ==
    << [professor_legacy_id |-> Some(1),
        links |-> [profile_url |-> Some(S_rmp_site \o S_professor_ \o <<"1">>)],
        avg_rating |-> Some(<<45, 1>>), num_ratings |-> Some(10),
        would_take_again_percent |-> Some(<<80, 0>>), difficulty |-> Some(<<3, 0>>),
        top_tags |-> <<"Caring", "Tough grader">>,
        rating_distribution |-> <<<<"awesome", Some(7)>>, <<"great", Some(3)>>, <<"good", Some(0)>>,
                                  <<"ok", Some(0)>>, <<"awful", Some(0)>>>>],
       [professor_legacy_id |-> Some(3),
        links |-> [profile_url |-> None],
        avg_rating |-> None, num_ratings |-> None,
        would_take_again_percent |-> None, difficulty |-> None,
        top_tags |-> <<>>,
        rating_distribution |-> [i \in DOMAIN DistKeys |-> <<DistKeys[i], None>>]] >>
\* fetch_and_parse_profile returns a snapshot or raises (0)
FetchOutcomes == {0} \cup DOMAIN Snapshots

\* load_current_csv over the rows of a file that names a term in every row
RECURSIVE load_current_csv(_, _)
load_current_csv(s, rows) ==
    IF rows = <<>> THEN s
    ELSE load_current_csv(load_current_row(s, Head(rows)).db, Tail(rows))
\* ingest_csv over the rows of a file whose term get_term_id accepts
RECURSIVE ingest_rows(_, _, _, _)
ingest_rows(s, keymap, tid, rows) ==
    IF rows = <<>> THEN s
    ELSE ingest_rows(ingest_row(s, keymap, tid, Head(rows)).db, keymap, tid, Tail(rows))
ingest_csv(s, f) ==
    LET t == get_term_id(s, FileTerm(f)[1], FileTerm(f)[2])
    IN  ingest_rows(t.db, build_keymap(f.headers), Get(t.id), f.rows)

\* The catalogs a crawl may find: the current extract with two rows named
\* "Li, Al" in the target term; and one where the second "Li, Al" teaches
\* in another term only.
Catalogs ==
    { load_current_csv(EmptyStore, <<Row1, Row4>>),
      load_current_csv(ingest_csv(EmptyStore, FileOf([k |-> 2, rs |-> <<1>>])), <<Row1>>) }

\* What the for loop derives from a card before it consults seen_ids:
\* get_card_info, the test of display and href, pid and the matching key.
CardScan ==
    [c \in DOMAIN CardPool |->
        LET info == get_card_info(CardPool[c])
            display == info[1]
            href == info[2]
            skip == IsNone(display) \/ Get(display) = <<>> \/ IsNone(href) \/ Get(href) = <<>>
        IN  [skip |-> skip,
             href |-> IF skip THEN <<>> ELSE Get(href),
             pid |-> IF skip THEN <<>> ELSE CardPid(Get(href)),
             k |-> IF skip THEN <<>> ELSE key_name(Get(display))]]

IngestOff ==
    /\ prog = "current"
    /\ dir = <<>>
    /\ pc = "done"
    /\ run = 1
    /\ fileNo = 0
    /\ rowNo = 0
    /\ term_id = 0
    /\ hist = <<>>
    /\ histC = <<>>
    /\ doneCounts = None
    /\ processed = 0
    /\ skipped = 0
    /\ inserted = 0
    /\ updated = 0

\* faulty variant: the failure to load the listing is swallowed
AfterOpen_swallow(loaded) == "top"

\* page.goto and wait_for_first_cards stand outside every try: what they
\* raise leaves main() through the async with block
AfterOpen(loaded) == IF loaded THEN "top" ELSE "fatal"

\* faulty variant: the ceiling is never tested
LimitReached_never(limit, n) == FALSE

\* if LIMIT_MATCHES and len(matches) >= LIMIT_MATCHES, for n = len(matches)
LimitReached(limit, n) == ~IsNone(limit) /\ Get(limit) # 0 /\ n >= Get(limit)

\* faulty variant: no try around fetch_and_parse_profile
OnFetchError_raise(next) == "fatal"

\* except Exception as e: print(...); the statement after the try runs next
OnFetchError(next) == next

\* faulty variant: a click that succeeded does not reset the counter
AfterExpand_growthOnly(counted, old_total, new_total, clicked) ==
    IF new_total > old_total THEN 0 ELSE counted

\* faulty variant: cards that came in after the scan do not reset the counter
AfterExpand_clickOnly(counted, old_total, new_total, clicked) ==
    IF clicked THEN 0 ELSE counted

\* if new_total > total or clicked: stagnant_loops = 0
AfterExpand(counted, old_total, new_total, clicked) ==
    IF new_total > old_total \/ clicked THEN 0 ELSE counted

\* click_show_more looks for the Show More button in four ways
Strategies == <<"role", "text", "wrapper", "query">>
\* what one way of looking may meet: no visible button, an exception or a
\* timeout on the way, a click that went through
StrategyOutcomes == {"absent", "timeout", "clicked"}
ClickOutcomes(e) ==
    [DOMAIN Strategies -> IF e = "frozen" THEN StrategyOutcomes \ {"clicked"} ELSE StrategyOutcomes]
\* the first way of looking whose click goes through, 0 if none does
FirstOk(o) ==
    IF \E i \in DOMAIN o : o[i] = "clicked" THEN Min({i \in DOMAIN o : o[i] = "clicked"}) ELSE 0

\* the four blocks run one after the other whatever the clicks did
RECURSIVE TryStrategies_noReturn(_, _)
TryStrategies_noReturn(o, i) ==
    IF i > Len(Strategies) THEN [tried |-> <<>>, clicked |-> FALSE]
    ELSE [tried |-> <<Strategies[i]>> \o TryStrategies_noReturn(o, i + 1).tried,
          clicked |-> o[i] = "clicked" \/ TryStrategies_noReturn(o, i + 1).clicked]

\* the body of click_show_more from block i on: each block returns True
\* after its click, and passes in every other case; return False ends it
RECURSIVE TryStrategies(_, _)
TryStrategies(o, i) ==
    IF i > Len(Strategies) THEN [tried |-> <<>>, clicked |-> FALSE]
    ELSE IF o[i] = "clicked" THEN [tried |-> <<Strategies[i]>>, clicked |-> TRUE]
    ELSE [tried |-> <<Strategies[i]>> \o TryStrategies(o, i + 1).tried,
          clicked |-> TryStrategies(o, i + 1).clicked]

\* faulty variant: click_show_more without its return True statements
click_show_more_noReturn(o) == TryStrategies_noReturn(o, 1)

click_show_more(o) == TryStrategies(o, 1)
\* what click_show_more may do in an environment: the strategies it tried,
\* what it returned, and the first strategy whose click would go through
ClickResults ==
    [e \in {"frozen", "live", "down"} |->
        {[tried |-> click_show_more(o).tried, clicked |-> click_show_more(o).clicked,
          firstOk |-> FirstOk(o)] : o \in ClickOutcomes(e)}] @@ <<>>

\* faulty variant: the connection is opened whatever DRY_RUN says
Connect_always(dry) == Some("rw")

\* conn = sqlite3.connect(DB_PATH) if not DRY_RUN else None
Connect(dry) == IF ~dry THEN Some("rw") ELSE None

\* main() before page.goto: db_map holds the catalog rows of the target
\* term by key.  In the environment "down" the listing does not load or
\* renders no card.
CrawlStart ==
    /\ db \in Catalogs
    /\ wk = db
    /\ stable = db
    /\ IngestOff
    /\ FnOff
    /\ limit_matches \in {LIMIT_MATCHES} \cup {Some(n) : n \in 1..MaxLimit}
    /\ clickLog = NoClick
    /\ cpc = "open"
    /\ env \in {"frozen", "live", "down"}
    /\ page \in (IF env = "down" THEN {<<>>}
                 ELSE UNION {[1..n -> DOMAIN CardPool] : n \in 1..InitCards})
    /\ db_map = BuildDbMap(get_instructors_for_term(db, TARGET_SEMESTER, TARGET_YEAR))
    /\ total = 0
    /\ last_processed = 0
    /\ stagnant_loops = 0
    /\ idx = 0
    /\ seen_ids = {}
    /\ matches = <<>>
    /\ pending = <<>>
    /\ procs = <<>>
    /\ newInCycle = 0
    /\ stagnantCycles = 0
    /\ lastSnap = <<>>
\* the crawl with the configuration constants as shipped, and with any
\* ceiling on the matches
CrawlInit == CrawlStart /\ dry_run = DRY_RUN

\* page.goto(START_URL), maybe_dismiss_banners, wait_for_first_cards
OpenListing ==
    /\ cpc = "open"
    /\ cpc' = AfterOpen(env # "down" /\ Len(page) >= 1)
    /\ UNCHANGED <<db, wk, ingestVars, env, page, db_map, total, last_processed, stagnant_loops,
                   idx, seen_ids, matches, pending, procs, newInCycle, stagnantCycles, lastSnap>>
    /\ UNCHANGED <<countVars, limit_matches, dry_run, fnVars, clickLog>>

\* while True: total = count of the rendered cards
BeginScan ==
    /\ cpc = "top"
    /\ total' = Len(page)
    /\ idx' = last_processed
    /\ newInCycle' = 0
    /\ cpc' = "scan"
    /\ clickLog' = NoClick
    /\ UNCHANGED <<db, wk, ingestVars, env, page, db_map, last_processed, stagnant_loops,
                   seen_ids, matches, pending, procs, stagnantCycles, lastSnap>>
    /\ UNCHANGED <<countVars, limit_matches, dry_run, fnVars>>

\* one iteration of for idx in range(last_processed, total), up to the
\* lookup in db_map
ScanCard ==
    /\ cpc = "scan" /\ idx < total
    /\ LET card == CardScan[page[idx + 1]]
           pid == card.pid
           k == card.k
       IN  IF card.skip \/ AlreadySeen(pid, seen_ids)
           THEN /\ idx' = idx + 1
                /\ UNCHANGED <<seen_ids, procs, pending, cpc>>
           ELSE /\ seen_ids' = seen_ids \cup {pid}
                /\ procs' = Append(procs, pid)
                /\ IF k \in DOMAIN db_map
                   THEN pending' = db_map[k] /\ cpc' = "match" /\ idx' = idx
                   ELSE pending' = <<>> /\ cpc' = "scan" /\ idx' = idx + 1
    /\ newInCycle' = newInCycle + 1
    /\ UNCHANGED <<db, wk, ingestVars, env, page, db_map, total, last_processed, stagnant_loops,
                   matches, stagnantCycles, lastSnap>>
    /\ UNCHANGED <<countVars, limit_matches, dry_run, fnVars, clickLog>>

\* one iteration of for p in db_map[k]: the profile is fetched and parsed
\* for this row, and written unless that raised
FetchProfile ==
    /\ cpc = "match" /\ pending # <<>>
    /\ \E r \in FetchOutcomes :
          LET p == Head(pending)
              href == CardScan[page[idx + 1]].href
              mr == [instructor_id |-> p.instructor_id, href |-> href,
                     parsed |-> IF r = 0 THEN None ELSE Some(r)]
              limit == LimitReached(limit_matches, Len(matches) + 1)
              next == IF limit THEN "finished"
                      ELSE IF Tail(pending) = <<>> THEN "scan" ELSE "match"
              conn == Connect(dry_run)
          IN  /\ db' = IF r # 0 /\ ~IsNone(conn)
                       THEN upsert_rmp(db, p.instructor_id, Snapshots[r], Len(matches) + 1)
                       ELSE db
              /\ wk' = db'
              /\ stable' = db'
              /\ lastSnap' = IF r # 0 /\ ~IsNone(conn) THEN (p.instructor_id :> r) @@ lastSnap ELSE lastSnap
              /\ matches' = Append(matches, mr)
              /\ cpc' = IF r = 0 THEN OnFetchError(next) ELSE next
              /\ IF limit
                 THEN UNCHANGED <<pending, idx>>
                 ELSE /\ pending' = Tail(pending)
                      /\ idx' = IF Tail(pending) = <<>> THEN idx + 1 ELSE idx
    /\ UNCHANGED <<prog, dir, pc, run, fileNo, rowNo, term_id, hist, histC, doneCounts>>
    /\ UNCHANGED <<env, page, db_map, total, last_processed, stagnant_loops,
                   seen_ids, procs, newInCycle, stagnantCycles>>
    /\ UNCHANGED <<countVars, limit_matches, dry_run, fnVars, clickLog>>

\* the end of the for loop: the counter, click_show_more, scroll_to_bottom,
\* the new count, the break
ExpandEffect(click, grown) ==
    LET counted == NextStagnant(stagnant_loops, total, last_processed)
        new_total == Len(page) + Len(grown)
        stagnant == AfterExpand(counted, total, new_total, click.clicked)
    IN  /\ page' = page \o grown
        /\ stagnant_loops' = stagnant
        /\ last_processed' = total
        /\ cpc' = IF stagnant >= StagnationLimit THEN "finished" ELSE "top"
        /\ stagnantCycles' = IF newInCycle = 0 /\ ~click.clicked /\ new_total <= total
                             THEN stagnantCycles + 1 ELSE 0
        /\ clickLog' = [tried |-> click.tried, firstOk |-> click.firstOk,
                        clicked |-> click.clicked, scrolled |-> TRUE]
Expand ==
    /\ cpc = "scan" /\ idx = total
    /\ \E click \in ClickResults[env],
          grown \in (IF env = "frozen" \/ Len(page) >= MaxCards THEN {<<>>}
                     ELSE {<<>>} \cup {<<c>> : c \in DOMAIN CardPool}) :
          ExpandEffect(click, grown)
    /\ UNCHANGED <<db, wk, ingestVars, env, db_map, total, idx, seen_ids, matches, pending,
                   procs, newInCycle, lastSnap>>
    /\ UNCHANGED <<countVars, limit_matches, dry_run, fnVars>>

CrawlNext ==
    \/ OpenListing
    \/ BeginScan
    \/ ScanCard
    \/ FetchProfile
    \/ Expand

CrawlSpec == CrawlInit /\ [][CrawlNext]_vars
\* The crawl, configured as shipped, of a listing that never grows and
\* whose Show More never succeeds.  The event loop runs main() on, and no step of it waits without
\* a timeout.
FrozenInit == CrawlInit /\ env = "frozen" /\ limit_matches = LIMIT_MATCHES
CrawlFrozen == FrozenInit /\ [][CrawlNext]_vars /\ WF_vars(CrawlNext)
\* The crawl, configured as shipped, of a listing that holds at most
\* MaxCards cards and whose Show More may go on answering clicks.
LiveInit == CrawlInit /\ env = "live" /\ limit_matches = LIMIT_MATCHES
CrawlLive == LiveInit /\ [][CrawlNext]_vars /\ WF_vars(CrawlNext)
\* The crawl with DRY_RUN = True, all else as shipped, of a listing that
\* does not load or does not grow.
DryInit == CrawlStart /\ dry_run = TRUE /\ env # "live" /\ limit_matches = LIMIT_MATCHES
CrawlDry == DryInit /\ [][CrawlNext]_vars

\* ------------------------------------------------------------------------
\* rmp_profile_parser.py.  A profile document is what the selectors of the
\* parser find in it: the href of the canonical link and of the "rate"
\* link, the text of the rating numerator and of the ratings count, the
\* feedback numbers and labels, the tag spans inside and outside the tags
\* container, and the entries of the distribution list, each with the text
\* of its label, of its <b> and of its LabelValue element.  An element that
\* is not in the document is None.  The result is reduced to the fields
\* upsert_rmp reads.
\* ------------------------------------------------------------------------
\* sub in s
Contains(s, sub) ==
    \E i \in 0..(Len(s) - Len(sub)) : SubSeq(s, i + 1, i + Len(sub)) = sub

\* el.get_text(strip=True) or None
SelText(x) == IF IsNone(x) \/ Strip(Get(x)) = <<>> THEN None ELSE Some(Strip(Get(x)))

\* re.search(r"\d+(?:\.\d+)?", s): the matched text
FirstNumber(s) ==
    LET starts == {i \in DOMAIN s : IsDigit(s[i])}
        i == Min(starts)
        int == LeadingDigits(Drop(s, i - 1))
        rest == Drop(s, i - 1 + Len(int))
        frac == IF Len(rest) >= 2 /\ rest[1] = "." /\ IsDigit(rest[2])
                THEN <<".">> \o LeadingDigits(Tail(rest)) ELSE <<>>
    IN  IF starts = {} THEN None ELSE Some(int \o frac)

_to_float(x) ==
    IF IsNone(x) THEN None
    ELSE IF ~IsNone(PyFloat(Get(x))) THEN PyFloat(Get(x))
    ELSE IF IsNone(FirstNumber(Get(x))) THEN None
    ELSE PyFloat(Get(FirstNumber(Get(x))))

_to_int(x) ==
    LET s == Replace(Get(x), <<",">>, <<>>)
        starts == {i \in DOMAIN s : IsDigit(s[i])}
    IN  IF IsNone(x) \/ starts = {} THEN None
        ELSE Some(NatVal(LeadingDigits(Drop(s, Min(starts) - 1))))

\* re.search(prefix + r"(\d+)", html): int(m.group(1))
IdAfter(html, prefix) ==
    LET n == Len(prefix)
        hits == {i \in DOMAIN html : /\ i + n <= Len(html)
                                     /\ SubSeq(html, i, i + n - 1) = prefix
                                     /\ IsDigit(html[i + n])}
    IN  IF hits = {} THEN None
        ELSE Some(NatVal(LeadingDigits(Drop(html, Min(hits) + n - 1))))

S_compare_ == <<"/", "c", "o", "m", "p", "a", "r", "e", "/", "p", "r", "o", "f", "e", "s", "s", "o", "r", "s", "/">>
S_add_rating_ == <<"/", "a", "d", "d", "/", "p", "r", "o", "f", "e", "s", "s", "o", "r", "-", "r", "a", "t", "i", "n", "g", "/">>
\* str(soup), as far as it holds hrefs
DocHtml(doc) ==
    (IF IsNone(doc.canonical) THEN <<>> ELSE Get(doc.canonical)) \o <<" ">>
    \o (IF IsNone(doc.rate_href) THEN <<>> ELSE Get(doc.rate_href))

parse_prof_ids(doc) ==
    LET html == DocHtml(doc)
    IN  IF ~IsNone(IdAfter(html, S_professor_)) THEN IdAfter(html, S_professor_)
        ELSE IF ~IsNone(IdAfter(html, S_compare_)) THEN IdAfter(html, S_compare_)
        ELSE IdAfter(html, S_add_rating_)

S_would_take_again == <<"w", "o", "u", "l", "d", " ", "t", "a", "k", "e", " ", "a", "g", "a", "i", "n">>
S_difficulty == <<"d", "i", "f", "f", "i", "c", "u", "l", "t", "y">>
\* for n_el, l_el in zip(feedback_numbers, feedback_labels)
RECURSIVE FeedbackLoop(_, _, _)
FeedbackLoop(numbers, labels, acc) ==
    IF numbers = <<>> \/ labels = <<>> THEN acc
    ELSE LET n_txt == Strip(Head(numbers))
             l_txt == Lower(Strip(Head(labels)))
             next == IF Contains(l_txt, S_would_take_again)
                     THEN [acc EXCEPT !.would_take_again = _to_float(Some(n_txt))]
                     ELSE IF Contains(l_txt, S_difficulty)
                     THEN [acc EXCEPT !.difficulty = _to_float(Some(n_txt))]
                     ELSE acc
         IN  FeedbackLoop(Tail(numbers), Tail(labels), next)

parse_header_block(doc) ==
    LET none == [would_take_again |-> None, difficulty |-> None]
        fb == IF /\ doc.feedback.numbers # <<>> /\ doc.feedback.labels # <<>>
                 /\ Len(doc.feedback.numbers) = Len(doc.feedback.labels)
              THEN FeedbackLoop(doc.feedback.numbers, doc.feedback.labels, none)
              ELSE none
    IN  [avg_rating |-> _to_float(SelText(doc.numerator)),
         num_ratings |-> _to_int(SelText(doc.num_ratings)),
         would_take_again_percent |-> fb.would_take_again,
         difficulty |-> fb.difficulty]

\* [t for el in spans if t]
RECURSIVE NonEmpty(_)
NonEmpty(ts) ==
    IF ts = <<>> THEN <<>>
    ELSE (IF Head(ts) = "" THEN <<>> ELSE <<Head(ts)>>) \o NonEmpty(Tail(ts))

parse_top_tags(doc) ==
    IF NonEmpty(doc.tags.container) # <<>> THEN NonEmpty(doc.tags.container)
    ELSE NonEmpty(doc.tags.container \o doc.tags.other)

S_awesome == <<"a", "w", "e", "s", "o", "m", "e">>
S_great == <<"g", "r", "e", "a", "t">>
S_good == <<"g", "o", "o", "d">>
S_ok == <<"o", "k">>
S_okay == <<"o", "k", "a", "y">>
S_awful == <<"a", "w", "f", "u", "l">>
\* the bucket an entry's label names, "" for none
DistBucket(key) ==
    IF Contains(key, S_awesome) THEN "awesome"
    ELSE IF Contains(key, S_great) THEN "great"
    ELSE IF Contains(key, S_good) THEN "good"
    ELSE IF key \in {S_ok, S_okay} THEN "ok"
    ELSE IF Contains(key, S_awful) THEN "awful"
    ELSE ""

\* for li in wrapper.select('li')
RECURSIVE DistLoop(_, _)
DistLoop(items, dist) ==
    IF items = <<>> THEN dist
    ELSE LET li == Head(items)
             label == IF IsNone(SelText(li.label)) THEN <<>> ELSE Get(SelText(li.label))
             count_txt == IF ~IsNone(SelText(li.b)) THEN SelText(li.b) ELSE SelText(li.value)
             count == _to_int(count_txt)
             bucket == DistBucket(Strip(Lower(label)))
         IN  DistLoop(Tail(items),
                      [k \in DOMAIN dist |-> IF k = bucket THEN count ELSE dist[k]])

\* faulty variant: the list is read without the test of wrapper, and
\* wrapper.select on None raises AttributeError
parse_rating_distribution_noguard(doc) ==
    IF IsNone(doc.dist)
    THEN [raised |-> TRUE, dist |-> [k \in {"awesome", "great", "good", "ok", "awful"} |-> None]]
    ELSE [raised |-> FALSE,
          dist |-> DistLoop(Get(doc.dist), [k \in {"awesome", "great", "good", "ok", "awful"} |-> None])]

\* [raised |-> an exception leaves the function, dist |-> the dict returned]
parse_rating_distribution(doc) ==
    LET dist == [k \in {"awesome", "great", "good", "ok", "awful"} |-> None]
    IN  IF IsNone(doc.dist) THEN [raised |-> FALSE, dist |-> dist]
        ELSE [raised |-> FALSE, dist |-> DistLoop(Get(doc.dist), dist)]

parse_canonical_url(doc) ==
    IF IsNone(doc.canonical) \/ Get(doc.canonical) = <<>> THEN None ELSE doc.canonical

\* [raised |-> an exception leaves the function, value |-> the dict
\* returned]; the keys of rating_distribution stand in insertion order
parse_professor_page(doc) ==
    LET header == parse_header_block(doc)
        d == parse_rating_distribution(doc)
    IN  IF d.raised THEN [raised |-> TRUE, value |-> None]
        ELSE [raised |-> FALSE,
              value |-> [professor_legacy_id |-> parse_prof_ids(doc),
                         links |-> [profile_url |-> parse_canonical_url(doc)],
                         avg_rating |-> header.avg_rating,
                         num_ratings |-> header.num_ratings,
                         would_take_again_percent |-> header.would_take_again_percent,
                         difficulty |-> header.difficulty,
                         top_tags |-> parse_top_tags(doc),
                         rating_distribution |->
                            [i \in DOMAIN DistKeys |-> <<DistKeys[i], d.dist[DistKeys[i]]>>]]]

\* the documents the parser is given
Li(label, b, value) == [label |-> label, b |-> b, value |-> value]
DistBlocks ==
    {None,
     Some(<<>>),
     Some(<<Li(Some(<<"A", "w", "e", "s", "o", "m", "e", " ", "5">>), Some(<<"7">>), None),
            Li(Some(<<" ", "G", "r", "e", "a", "t", " ", "4">>), None, Some(<<"3">>)),
            Li(Some(<<"G", "o", "o", "d", " ", "3">>), Some(<<"0">>), None),
            Li(Some(<<"O", "K">>), Some(<<"0">>), None),
            Li(Some(<<"A", "w", "f", "u", "l", " ", "1">>), Some(<<"0">>), None)>>),
     Some(<<Li(Some(<<"A", "w", "e", "s", "o", "m", "e", " ", "5">>), None, None),
            Li(None, Some(<<"2">>), None),
            Li(Some(<<"O", "K", " ", "2">>), Some(<<"1", ",", "0", "2", "4">>), None)>>)}
Docs ==
    [canonical : {None, Some(S_rmp_site \o S_professor_ \o <<"1">>)},
     rate_href : {None, Some(S_add_rating_ \o <<"3">>)},
     numerator : {None, Some(<<"4", ".", "5">>), Some(<<"N", "/", "A">>)},
     num_ratings : {None, Some(<<"1", "0", " ", "r", "a", "t", "i", "n", "g", "s">>), Some(<<" ">>)},
     feedback : {[numbers |-> <<>>, labels |-> <<>>],
                 [numbers |-> <<<<"8", "0", "%">>, <<"3">>>>,
                  labels |-> <<<<"W", "o", "u", "l", "d", " ", "t", "a", "k", "e", " ", "a", "g", "a", "i", "n">>, <<"L", "e", "v", "e", "l", " ", "o", "f", " ", "D", "i", "f", "f", "i", "c", "u", "l", "t", "y">>>>],
                 [numbers |-> <<<<"8", "0", "%">>>>,
                  labels |-> <<<<"W", "o", "u", "l", "d", " ", "t", "a", "k", "e", " ", "a", "g", "a", "i", "n">>, <<"L", "e", "v", "e", "l", " ", "o", "f", " ", "D", "i", "f", "f", "i", "c", "u", "l", "t", "y">>>>]},
     tags : {[container |-> <<>>, other |-> <<>>],
             [container |-> <<"Caring", "", "Tough grader">>, other |-> <<"Funny">>],
             [container |-> <<"">>, other |-> <<"Funny">>]},
     dist : DistBlocks]

\* ------------------------------------------------------------------------
\* The helper functions called on their own
\* ------------------------------------------------------------------------
MaxNameTokens == 5
MaxCreditTokens == 3
MaxHeaders == 2

\* the pieces names and credit cells are put together from
NameTokens == <<<<"S", "m", "i", "t", "h">>, <<",", " ">>, <<"J", "o", "h", "n">>, <<" ">>, <<"A", ".">>>>
CreditTokens ==
    <<<<"1">>, <<"3">>, <<"1", "8">>, <<".", "5">>, <<" ", "t", "o", " ">>, <<"-">>,
      <<EnDash>>, <<EmDash>>, <<"n", "a", "n">>, <<" ">>>>

\* the text that the tokens numbered by q spell
RECURSIVE Spell(_, _)
Spell(tokens, q) == IF q = <<>> THEN <<>> ELSE tokens[Head(q)] \o Spell(tokens, Tail(q))
Texts(tokens, n) == {Spell(tokens, q) : q \in UNION {[1..k -> DOMAIN tokens] : k \in 0..n}}

Names == Texts(NameTokens, MaxNameTokens)
\* a Credits cell, None for a file without the column
CreditCells == {None} \cup {Some(t) : t \in Texts(CreditTokens, MaxCreditTokens)}

\* header rows of a file: headers in other letter case than the aliases,
\* next to headers that are aliases
HeaderPool == <<"subj", "Subject", "SUBJ", "Crn", "crn", "Comp Numb", " Title">>
HeaderRows == UNION {[1..n -> Range(HeaderPool)] : n \in 0..MaxHeaders}

\* ---- clean_historical.py ----
\* (fall|spring|summer|winter)[_\-]?(\d{4}) at position i of l, for the word w
SemYearAt(l, i, w) ==
    LET j == i + Len(w)
        k == IF j <= Len(l) /\ l[j] \in {"_", "-"} THEN j + 1 ELSE j
    IN  /\ i + Len(w) - 1 <= Len(l) /\ SubSeq(l, i, i + Len(w) - 1) = w
        /\ \/ k + 3 <= Len(l) /\ IsDigits(SubSeq(l, k, k + 3))
           \/ j + 3 <= Len(l) /\ IsDigits(SubSeq(l, j, j + 3))
\* (\d{4})[^\d]*(fall|spring|summer|winter) at position i, the word at j
YearSemAt(l, i, j, w) ==
    /\ i + 3 <= Len(l) /\ IsDigits(SubSeq(l, i, i + 3))
    /\ j >= i + 4 /\ j + Len(w) - 1 <= Len(l) /\ SubSeq(l, j, j + Len(w) - 1) = w
    /\ \A n \in (i + 4)..(j - 1) : ~IsDigit(l[n])
\* parse_term_from_filename: (semester, year), (None, None) for pd.NA
parse_term_from_filename(name) ==
    LET l == Lower(name)
        m == {i \in DOMAIN l : \E w \in SemesterWords : SemYearAt(l, i, w)}
        m2 == {i \in DOMAIN l : \E j \in DOMAIN l, w \in SemesterWords : YearSemAt(l, i, j, w)}
    IN  IF m # {}
        THEN LET i == Min(m)
                 w == CHOOSE v \in SemesterWords : SemYearAt(l, i, v)
                 j == i + Len(w)
                 k == IF l[j] \in {"_", "-"} THEN j + 1 ELSE j
             IN  <<Some(Capitalize(SubSeq(name, i, j - 1))), Some(NatVal(SubSeq(l, k, k + 3)))>>
        ELSE IF m2 # {}
        THEN LET i == Min(m2)
                 j == Max({n \in DOMAIN l : \E w \in SemesterWords : YearSemAt(l, i, n, w)})
                 w == CHOOSE v \in SemesterWords : YearSemAt(l, i, j, v)
             IN  <<Some(Capitalize(SubSeq(name, j, j + Len(w) - 1))), Some(NatVal(SubSeq(l, i, i + 3)))>>
        ELSE <<None, None>>

N_2025_Spring == S_uvm_ \o <<"2", "0", "2", "5", "_", "S", "p", "r", "i", "n", "g">> \o S_cleaned_csv
\* file names with the term in either order, and without a term
TermFileNames == {N_spring_2025, N_2025_Spring, N_current}
\* cleaned files under these names, whose rows may leave the term columns empty
TermFiles ==
    {[name |-> n, headers |-> STANDARD_ORDER, rows |-> [i \in DOMAIN q |-> BaseRows[q[i]]]] :
        n \in TermFileNames, q \in UNION {[1..k -> {1, 3, 4}] : k \in 1..MaxRows}}

FnInputs(f) ==
    IF f = "build_keymap" THEN HeaderRows ELSE
    IF f = "parse_term_from_filename" THEN TermFileNames ELSE
    IF f = "ingest_csv" THEN TermFiles ELSE
    IF f \in {"normalize_name", "key_name"} THEN Names
    ELSE IF f \in {"parse_credits", "parse_credits_current"} THEN CreditCells
    ELSE Docs

FnInit ==
    /\ db = EmptyStore
    /\ wk = EmptyStore
    /\ stable = EmptyStore
    /\ IngestOff
    /\ CrawlOff
    /\ fn \in {"normalize_name", "key_name", "parse_credits", "parse_credits_current",
               "parse_professor_page", "build_keymap", "parse_term_from_filename", "ingest_csv"}
    /\ arg \in FnInputs(fn)
    /\ ret = None

Return(v) ==
    /\ IsNone(ret)
    /\ ret' = Some(v)
    /\ UNCHANGED <<db, wk, ingestVars, countVars, crawlVars, limit_matches, dry_run, clickLog, fn, arg>>

CallNormalizeName == fn = "normalize_name" /\ Return(normalize_name(arg))
CallKeyName == fn = "key_name" /\ Return(key_name(arg))
\* parse_credits of ingest_all_terms.py
CallParseCredits == fn = "parse_credits" /\ Return(parse_credits(arg))
\* parse_credits of ingest_uvm_current.py
CallParseCreditsCurrent == fn = "parse_credits_current" /\ Return(parse_credits_current(arg))
CallParseProfessorPage == fn = "parse_professor_page" /\ Return(parse_professor_page(arg))
\* build_keymap, for each order its loop over hset may take
CallBuildKeymap ==
    /\ fn = "build_keymap"
    /\ \E hs \in HeaderOrders(arg) : Return(build_keymap_in(hs))
CallParseTermFromFilename ==
    fn = "parse_term_from_filename" /\ Return(parse_term_from_filename(arg))
\* ingest_csv of one file into a store that holds the schema only; what
\* get_term_id raises ends it
IngestCsvResult(t, f) ==
    IF t.raised THEN [raised |-> TRUE, db |-> t.db]
    ELSE [raised |-> FALSE, db |-> ingest_rows(t.db, build_keymap(f.headers), Get(t.id), f.rows)]
CallIngestCsv ==
    /\ fn = "ingest_csv"
    /\ Return(IngestCsvResult(get_term_id(EmptyStore, FileTerm(arg)[1], FileTerm(arg)[2]), arg))

FnNext ==
    \/ CallNormalizeName
    \/ CallKeyName
    \/ CallParseCredits
    \/ CallParseCreditsCurrent
    \/ CallParseProfessorPage
    \/ CallBuildKeymap
    \/ CallParseTermFromFilename
    \/ CallIngestCsv

FnSpec == FnInit /\ [][FnNext]_vars

\* ------------------------------------------------------------------------
\* Properties of ingestion
\* ------------------------------------------------------------------------

\* C1: when a run of the ingester over the unchanged files returns after an
\* earlier run over them returned, every table has as many rows as it had
\* after the earlier run.
C1_Idempotent ==
    (pc = "done" /\ ~IsNone(doneCounts)) => Counts(db) = Get(doneCounts)

C1_Witness ==
    /\ pc = "done" /\ run = 2 /\ ~IsNone(doneCounts)
    /\ Cardinality(db.sections) = 2
    /\ Cardinality(db.section_instructors) >= 2

\* the section rows stored under a (semester, year, crn) key
SectionsFor(s, key) ==
    {x \in s.sections :
        /\ x.crn = key[3]
        /\ \E t \in s.terms : /\ t.term_id = x.term_id
                              /\ Some(t.semester) = key[1]
                              /\ Some(t.year) = key[2]}

\* the section row x carries the course, type, credits and enrollment of facts
SectionCarries(s, x, facts) ==
    /\ x.lec_lab = facts.lec_lab
    /\ x.credits_min = facts.credits_min
    /\ x.credits_max = facts.credits_max
    /\ x.max_enrollment = facts.max_enrollment
    /\ x.current_enrollment = facts.current_enrollment
    /\ \E c \in s.courses : \E sb \in s.subjects :
          /\ c.course_id = x.course_id
          /\ sb.subject_id = c.subject_id
          /\ sb.code = facts.subj
          /\ c.course_number = facts.number
          /\ c.title = facts.title

SnapshotOverwrite(s, h) ==
    /\ \A key \in DOMAIN h :
          /\ Cardinality(SectionsFor(s, key)) = 1
          /\ \A x \in SectionsFor(s, key) :
                SectionCarries(s, x, RowFacts(prog, h[key].e, h[key].i))
    /\ Cardinality(s.sections) = Cardinality(DOMAIN h)

\* C2: there is exactly one section row per ingested (term, crn), and it
\* carries the course, lec/lab, credit range and enrollment counts of the
\* latest accepted row with that pair; so in the connection's view as in
\* the committed store.
C2_SnapshotOverwrite ==
    SnapshotOverwrite(wk, hist) /\ SnapshotOverwrite(db, histC)

\* crn 10001 ingested at 20/30 (Row1) and then at 25/40 (Row2), committed
C2_Witness ==
    /\ pc = "loop" /\ fileNo = 1
    /\ dir[1].rs = <<1, 2>>
    /\ Cardinality(db.sections) = 1
    /\ \A x \in db.sections : x.current_enrollment = Some(25)

MeetingCarries(m, facts) ==
    /\ m.start_time = facts.start_time
    /\ m.end_time = facts.end_time
    /\ m.days = facts.days
    /\ m.bldg = facts.bldg
    /\ m.room = facts.room
    /\ m.location = facts.location

MeetingReplaced(s, h) ==
    /\ \A key \in DOMAIN h : \A x \in SectionsFor(s, key) :
          /\ Cardinality({m \in s.meetings : m.section_id = x.section_id}) = 1
          /\ \A m \in s.meetings :
                m.section_id = x.section_id =>
                    MeetingCarries(m, RowFacts(prog, h[key].e, h[key].i))
    /\ Cardinality(s.meetings) = Cardinality(s.sections)

\* C3: every ingested section owns exactly one meeting row, and that row
\* carries the times, days, building, room and location of the latest row
\* ingested for the section.
C3_MeetingReplaced ==
    MeetingReplaced(wk, hist) /\ MeetingReplaced(db, histC)

\* the meeting pattern of crn 10001 changed from MWF (Row1) to TR (Row2)
C3_Witness ==
    /\ pc = "rows" /\ rowNo = 2
    /\ dir[fileNo + 1].rs = <<1, 2>>
    /\ Cardinality(wk.meetings) = 1
    /\ \A m \in wk.meetings : m.days = Some(<<"T", "R">>) /\ IsNone(m.start_time)

NaturalKeysUnique(s) ==
    /\ \A a, b \in s.terms : (a.semester = b.semester /\ a.year = b.year) => a = b
    /\ \A a, b \in s.subjects : a.code = b.code => a = b
    /\ \A a, b \in s.courses :
          (a.subject_id = b.subject_id /\ a.course_number = b.course_number /\ a.title = b.title)
              => a = b
    /\ \A a, b \in s.instructors :
          (a.name = b.name /\ a.netid = b.netid /\ a.email = b.email) => a = b

\* C8: no two term rows share (semester, year), no two subject rows a code,
\* no two course rows (subject, number, title), no two instructor rows
\* (name, netid, email), an absent netid or email counting as equal to
\* another absent one.
C8_NaturalKeysUnique ==
    NaturalKeysUnique(wk) /\ NaturalKeysUnique(db)

\* a lookup hit on an instructor whose netid and email are absent: the one
\* row is linked to two sections
C8_Witness ==
    \E i \in wk.instructors :
        /\ IsNone(i.netid) /\ IsNone(i.email)
        /\ Cardinality({l \in wk.section_instructors : l.instructor_id = i.instructor_id}) = 2
        /\ Cardinality(wk.subjects) = 2

\* C9: when a run ends by an error or a kill, the committed store is the
\* store as it was when the last file completed.
C9_CommitPerFile ==
    pc \in {"open_failed", "row_failed", "killed"} => db = stable

\* killed in the second file after a row of it was written; the first file
\* is committed
C9_Witness ==
    /\ pc = "killed" /\ fileNo = 1 /\ rowNo = 1
    /\ Len(dir) = 2
    /\ RowFacts(prog, dir[2], 1).accepted
    /\ Cardinality(db.sections) = 1
    /\ db = stable

\* C10 as claimed: a run that ends because a row's statement raised has no
\* file left to ingest (the batch went on after the failing file).
C10_BatchContinues ==
    pc = "row_failed" => fileNo + 1 >= Len(dir)

\* ------------------------------------------------------------------------
\* The crawl: termination, matching, rating columns, the seen-set
\* ------------------------------------------------------------------------

C5_SameSnapshot ==
    cpc # "match" =>
        \A i, j \in DOMAIN matches :
            (i # j /\ matches[i].href = matches[j].href)
                => /\ ~IsNone(matches[i].parsed)
                   /\ matches[i].parsed = matches[j].parsed

\* C6: after upsert_rmp succeeded for an instructor, each of the eight
\* rating columns of the row holds what the latest snapshot says, NULL or
\* the empty list where the snapshot has nothing, and never what an earlier
\* snapshot left there.
C6_RatingOverwrite ==
    \A i \in db.instructors :
        i.instructor_id \in DOMAIN lastSnap =>
            LET p == Snapshots[lastSnap[i.instructor_id]]
            IN  /\ i.rmp_id = p.professor_legacy_id
                /\ i.rmp_url = IF ~IsNone(p.links.profile_url) THEN p.links.profile_url
                               ELSE IF IsNone(p.professor_legacy_id) THEN None
                               ELSE Some(S_rmp_site \o S_professor_
                                         \o NatText(Get(p.professor_legacy_id)))
                /\ i.rmp_avg_rating = p.avg_rating
                /\ i.rmp_num_ratings = p.num_ratings
                /\ i.rmp_would_take_again = p.would_take_again_percent
                /\ i.rmp_difficulty = p.difficulty
                /\ i.rmp_top_tags_json = IF p.top_tags = <<>> THEN Some(<<"[", "]">>)
                                         ELSE Some(json_dumps_list(p.top_tags))
                /\ i.rmp_rating_distribution_json = Some(json_dumps_dict(p.rating_distribution))
\* a row written from the rated profile and then from the profile without ratings
C6_Witness ==
    \E i \in db.instructors :
        /\ i.instructor_id \in DOMAIN lastSnap
        /\ lastSnap[i.instructor_id] = 2
        /\ \E m \in DOMAIN matches : /\ matches[m].instructor_id = i.instructor_id
                                     /\ matches[m].parsed = Some(1)
        /\ IsNone(i.rmp_avg_rating)
        /\ i.rmp_id = Some(3)
        /\ i.rmp_top_tags_json = Some(<<"[", "]">>)

NoRepeat(s) == \A i, j \in DOMAIN s : i # j => s[i] # s[j]
\* C7: within one crawl run no card identifier goes on to matching twice,
\* no catalog row is fetched twice for one identifier, and the seen-set
\* only grows.
C7_SeenOnce ==
    [][/\ seen_ids \subseteq seen_ids'
       /\ NoRepeat(procs')
       /\ \A i, j \in DOMAIN matches' :
             (i # j /\ CardPid(matches'[i].href) = CardPid(matches'[j].href))
                 => matches'[i].instructor_id # matches'[j].instructor_id]_vars
\* the first card is rendered again as the third, which a later cycle scans
C7_Witness ==
    /\ cpc = "scan" /\ idx = 3 /\ last_processed = 2
    /\ page[1] = 1 /\ page[3] = 1
    /\ procs = <<<<"1">>, <<"3">>>>
    /\ Len(matches) >= 1

\* ------------------------------------------------------------------------
\* Row rejection
\* ------------------------------------------------------------------------
\* C11: a row that lacks subject, course number, title or reference number
\* is counted as skipped, changes no table, and the row loop goes on to the
\* next row of the file.
C11_RejectedRowCounted ==
    [][(/\ pc = "rows" /\ rowNo < Len(CurFile.rows)
        /\ CurFacts.lacking
        /\ rowNo' = rowNo + 1)
       => (/\ skipped' = skipped + 1
           /\ wk' = wk /\ db' = db
           /\ pc' = "rows")]_vars

\* ------------------------------------------------------------------------
\* Errors of the crawl
\* ------------------------------------------------------------------------
FetchFailed == \E i \in DOMAIN matches : IsNone(matches[i].parsed)

\* C12: when fetch_and_parse_profile raises for a matched card, the step
\* writes nothing to the database and the loops go on; on a listing that
\* stops growing the crawl then still passes every card and ends by
\* stagnation.
C12_FetchErrorSkipsCard ==
    /\ [][(/\ cpc = "match"
           /\ Len(matches') = Len(matches) + 1
           /\ IsNone(matches'[Len(matches')].parsed))
          => (/\ db' = db
              /\ lastSnap' = lastSnap
              /\ cpc' \in {"scan", "match"}
              /\ idx' >= idx
              /\ seen_ids' = seen_ids)]_vars
    /\ (FetchFailed ~> (/\ cpc = "finished"
                        /\ stagnant_loops >= StagnationLimit
                        /\ last_processed = Len(page)))

\* a fetch failed for one card and a later card was fetched and written
C12_Witness ==
    /\ cpc = "finished"
    /\ \E i, j \in DOMAIN matches :
          /\ i < j
          /\ IsNone(matches[i].parsed)
          /\ ~IsNone(matches[j].parsed)
          /\ matches[i].href # matches[j].href
          /\ matches[j].instructor_id \in DOMAIN lastSnap

\* C13: when the listing does not load or shows no card in time the run
\* ends there: no card is counted or examined, no profile is fetched and no
\* instructor row is written; the scan runs only over a listing with a card.
C13_OpenFailureFatal ==
    /\ [](env = "down" => cpc \in {"open", "fatal"})
    /\ [](cpc = "fatal" => (/\ total = 0 /\ idx = 0 /\ seen_ids = {} /\ procs = <<>>
                            /\ matches = <<>> /\ lastSnap = <<>>))
    /\ [](cpc \in {"scan", "match"} => Len(page) >= 1)
    /\ [][cpc' = "fatal" => (db' = db /\ wk' = wk)]_vars
    /\ [][cpc # "fatal"]_vars

C13_Witness == cpc = "fatal" /\ env = "down" /\ db.instructors # {}

\* C14: with LIMIT_MATCHES set to N >= 1, matches never holds more than N
\* results, and once it holds N the run is over: no step scans a card,
\* fetches a profile or expands the listing.
C14_MatchCeiling ==
    /\ [](~IsNone(limit_matches) => Len(matches) <= Get(limit_matches))
    /\ []((~IsNone(limit_matches) /\ Len(matches) = Get(limit_matches)) => cpc = "finished")
    /\ [][IsNone(limit_matches) \/ Len(matches) < Get(limit_matches)]_vars

\* the second of two matches reached the ceiling while a rendered card was
\* not yet scanned
C14_Witness ==
    /\ limit_matches = Some(2)
    /\ Len(matches) = 2
    /\ cpc = "finished"
    /\ idx + 1 < Len(page)

\* ------------------------------------------------------------------------
\* Links between sections and instructors
\* ------------------------------------------------------------------------
LinkedOnce(s) ==
    \A a, b \in s.section_instructors :
        (a.section_id = b.section_id /\ a.instructor_id = b.instructor_id) => a = b

\* C15: section_instructors never holds two rows for one (section,
\* instructor) pair, and linking a pair that is linked leaves the store as
\* it is.
C15_LinkOnce ==
    /\ LinkedOnce(wk)
    /\ LinkedOnce(db)
    /\ \A l \in wk.section_instructors :
          link_instructor_to_section(wk, l.section_id, l.instructor_id, None) = wk

\* the second run has read a row again whose two instructors the first run
\* linked to its section
C15_Witness ==
    /\ run = 2 /\ pc = "rows" /\ rowNo >= 1
    /\ prog = "current"
    /\ \E x \in wk.sections :
          Cardinality({l \in wk.section_instructors : l.section_id = x.section_id}) = 2
    /\ wk.section_instructors = stable.section_instructors

\* ------------------------------------------------------------------------
\* Names
\* ------------------------------------------------------------------------
T_Smith_John_A == <<"S", "m", "i", "t", "h", ",", " ", "J", "o", "h", "n", " ", "A", ".">>

\* a period that follows an initial: a single letter at a word boundary
InitialPeriodAt(s, j) ==
    /\ s[j] = "."
    /\ j >= 2 /\ IsAlpha(s[j - 1])
    /\ (j = 2 \/ ~IsWord(s[j - 2]))

\* C16: normalize_name puts the given names before the family name,
\* leaves no run of whitespace and no period after a single-letter initial;
\* "Smith, John A." becomes "John A Smith".
C16_NormalizeName ==
    (fn = "normalize_name" /\ ~IsNone(ret)) =>
        /\ \A j \in DOMAIN Get(ret) : ~InitialPeriodAt(Get(ret), j)
        /\ \A j \in DOMAIN Get(ret) : j > 1 => ~(IsSpace(Get(ret)[j]) /\ IsSpace(Get(ret)[j - 1]))
        /\ arg = T_Smith_John_A => Get(ret) = <<"J", "o", "h", "n", " ", "A", " ", "S", "m", "i", "t", "h">>

\* C17: key_name holds lower-case letters only; the key of
\* "Smith, John A." is "johnasmith".
C17_KeyName ==
    (fn = "key_name" /\ ~IsNone(ret)) =>
        /\ \A j \in DOMAIN Get(ret) : IsLower(Get(ret)[j])
        /\ arg = T_Smith_John_A => Get(ret) = <<"j", "o", "h", "n", "a", "s", "m", "i", "t", "h">>

\* ------------------------------------------------------------------------
\* Credits
\* ------------------------------------------------------------------------
CreditNumbers == {<<"1">>, <<"3">>, <<"1", "8">>}
CreditSeparators == {<<"-">>, <<" ", "t", "o", " ">>, <<EnDash>>, <<EmDash>>}

\* C18: both parse_credits give (n, n) for a bare number, (min, max) for a
\* range written with "-", "to", an en dash or an em dash, and (None, None)
\* for an empty cell: "1 to 18" gives (1.0, 18.0), "3" gives (3.0, 3.0).
C18_ParseCredits ==
    (fn \in {"parse_credits", "parse_credits_current"} /\ ~IsNone(ret)) =>
        /\ \A a \in CreditNumbers :
              arg = Some(a) => Get(ret) = <<Some(<<NatVal(a), 0>>), Some(<<NatVal(a), 0>>)>>
        /\ \A a, b \in CreditNumbers : \A sep \in CreditSeparators :
              arg = Some(a \o sep \o b)
                  => Get(ret) = <<Some(<<NatVal(a), 0>>), Some(<<NatVal(b), 0>>)>>
        /\ arg \in {None, Some(<<>>), Some(<<" ">>)} => Get(ret) = <<None, None>>

\* ------------------------------------------------------------------------
\* Profile documents
\* ------------------------------------------------------------------------
\* the result without its distribution
OtherFields(v) ==
    [professor_legacy_id |-> v.professor_legacy_id, links |-> v.links,
     avg_rating |-> v.avg_rating, num_ratings |-> v.num_ratings,
     would_take_again_percent |-> v.would_take_again_percent,
     difficulty |-> v.difficulty, top_tags |-> v.top_tags]

\* C19: parse_professor_page returns for every document; for a document
\* without the distribution list the five buckets are None and every other
\* field is what the same document with a distribution list gives.
C19_SoftFailParsing ==
    (fn = "parse_professor_page" /\ ~IsNone(ret)) =>
        /\ ~Get(ret).raised
        /\ IsNone(arg.dist) =>
              /\ Get(ret).value.rating_distribution = [i \in DOMAIN DistKeys |-> <<DistKeys[i], None>>]
              /\ \A b \in DistBlocks :
                    OtherFields(parse_professor_page([arg EXCEPT !.dist = b]).value)
                        = OtherFields(Get(ret).value)
              /\ ~IsNone(arg.canonical) => Get(ret).value.links.profile_url = arg.canonical
              /\ (~IsNone(arg.canonical) \/ ~IsNone(arg.rate_href))
                    => ~IsNone(Get(ret).value.professor_legacy_id)
              /\ arg.numerator = Some(<<"4", ".", "5">>) => Get(ret).value.avg_rating = Some(<<45, 1>>)
              /\ arg.num_ratings = Some(<<"1", "0", " ", "r", "a", "t", "i", "n", "g", "s">>) => Get(ret).value.num_ratings = Some(10)
              /\ Len(arg.feedback.numbers) = 2
                    => /\ Get(ret).value.would_take_again_percent = Some(<<80, 0>>)
                       /\ Get(ret).value.difficulty = Some(<<3, 0>>)
              /\ Len(arg.tags.container) = 3 => Get(ret).value.top_tags = <<"Caring", "Tough grader">>

\* the rated profile of Snapshots without its distribution list
C19_Witness ==
    /\ fn = "parse_professor_page" /\ ~IsNone(ret)
    /\ IsNone(arg.dist)
    /\ ~Get(ret).raised
    /\ Get(ret).value = [Snapshots[1] EXCEPT
                            !.rating_distribution = [i \in DOMAIN DistKeys |-> <<DistKeys[i], None>>]]

C21_ExpandStrategies ==
    [][(cpc = "scan" /\ idx = total) =>
          /\ clickLog'.tried = SubSeq(Strategies, 1, IF clickLog'.firstOk = 0 THEN Len(Strategies)
                                                     ELSE clickLog'.firstOk)
          /\ clickLog'.clicked = (clickLog'.firstOk # 0)
          /\ clickLog'.scrolled
          /\ cpc' \in {"top", "finished"}]_vars
\* the third strategy clicked after the first two failed
C21_Witness ==
    /\ clickLog.tried = <<"role", "text", "wrapper">>
    /\ clickLog.firstOk = 3
    /\ clickLog.scrolled

\* ------------------------------------------------------------------------
\* C22: build_keymap maps a field to the header that the earliest of its
\* aliases matches exactly; only a field none of whose aliases is a header
\* is matched without regard to letter case; a field that no header
\* matches either way is mapped to None.
\* ------------------------------------------------------------------------
ExactAliases(hset, canon) == {i \in DOMAIN ALIASES[canon] : ALIASES[canon][i] \in hset}
CaseMatches(hset, canon) ==
    {h \in hset : \E i \in DOMAIN ALIASES[canon] : HeaderLower(h) = HeaderLower(ALIASES[canon][i])}
C22_BuildKeymap ==
    (fn = "build_keymap" /\ ~IsNone(ret)) =>
        \A canon \in DOMAIN ALIASES :
            LET hset == HeaderSet(arg)
                chosen == Get(ret)[canon]
            IN  IF ExactAliases(hset, canon) # {}
                THEN chosen = Some(ALIASES[canon][Min(ExactAliases(hset, canon))])
                ELSE IF CaseMatches(hset, canon) # {}
                THEN ~IsNone(chosen) /\ Get(chosen) \in CaseMatches(hset, canon)
                ELSE IsNone(chosen)

\* ------------------------------------------------------------------------
\* C23: every accepted row with non-empty semester and year columns is
\* stored under the term those columns give; any other accepted row is
\* stored under the term of the file name, recognised in any letter case
\* and with the year before or after the semester.
\* ------------------------------------------------------------------------
\* the term the claim gives the row r of the file f
ClaimedTerm(f, r) ==
    LET keymap == build_keymap(f.headers)
        semester == getv(r, keymap, "Semester")
        year_str == getv(r, keymap, "Year")
    IN  IF is_missing(semester) \/ is_missing(year_str)
        THEN parse_term_from_filename(f.name)
        ELSE <<semester, to_int(year_str)>>
\* the store s holds a section crn in the term
StoredUnder(s, crn, term) ==
    \E sec \in s.sections, t \in s.terms :
        /\ sec.term_id = t.term_id
        /\ sec.crn = crn
        /\ term = <<Some(t.semester), Some(t.year)>>
C23_TermInference ==
    (fn = "ingest_csv" /\ ~IsNone(ret) /\ ~Get(ret).raised) =>
        \A i \in DOMAIN arg.rows :
            RowFactsAllTerms(arg, arg.rows[i]).accepted =>
                StoredUnder(Get(ret).db, RowFactsAllTerms(arg, arg.rows[i]).crn,
                            ClaimedTerm(arg, arg.rows[i]))

\* ------------------------------------------------------------------------
\* C24: when a row is accepted, every name of its instructor cell, split
\* on ";", " / ", " & " and " and " but not on a comma, is the name of an
\* instructor row linked to the row's section; a cell with one
\* "Family, Given" name gives the instructor of that name, comma included.
\* ------------------------------------------------------------------------
\* the store s links an instructor of this name to the section the facts name
InstructorLinked(s, facts, name) ==
    \E sec \in s.sections, t \in s.terms, ins \in s.instructors, l \in s.section_instructors :
        /\ sec.crn = facts.crn
        /\ sec.term_id = t.term_id
        /\ <<Some(t.semester), Some(t.year)>> = <<facts.semester, facts.year>>
        /\ l.section_id = sec.section_id
        /\ l.instructor_id = ins.instructor_id
        /\ ins.name = name
C24_InstructorSplit ==
    [][(pc = "rows" /\ rowNo' = rowNo + 1 /\ CurFacts.accepted) =>
          LET names == smart_instructor_split(norm(RowGet(CurRow, "Instructor")))
          IN  \A n \in DOMAIN names : InstructorLinked(wk', CurFacts, names[n])]_vars

\* ------------------------------------------------------------------------
\* C25: the crawl of a listing whose card count stops growing comes to an
\* end, whatever click_show_more returns.
\* ------------------------------------------------------------------------
C25_CrawlTerminates == <>(cpc \in {"finished", "fatal"})

\* ------------------------------------------------------------------------
\* C27: ingesting a row keeps every section under its identifier, term and
\* reference number and keeps every link between a section and an
\* instructor, whoever the row names as instructor; what is committed
\* never loses a link either.
\* ------------------------------------------------------------------------
KeepsSections(s, t) ==
    \A x \in s.sections :
        \E y \in t.sections :
            y.section_id = x.section_id /\ y.term_id = x.term_id /\ y.crn = x.crn
KeepsLinks(s, t) == s.section_instructors \subseteq t.section_instructors
C27_LinksOnlyGrow ==
    /\ [][(pc = "rows" /\ rowNo' = rowNo + 1) => (KeepsSections(wk, wk') /\ KeepsLinks(wk, wk'))]_vars
    /\ [][KeepsSections(db, db') /\ KeepsLinks(db, db')]_vars
\* a section ingested under one instructor and again under another holds
\* both links
C27_Witness ==
    \E x \in wk.sections, a, b \in wk.section_instructors, i, j \in wk.instructors :
        /\ x.crn = T_10001
        /\ a.section_id = x.section_id /\ b.section_id = x.section_id
        /\ a.instructor_id = i.instructor_id /\ b.instructor_id = j.instructor_id
        /\ i.name = T_LiAl /\ j.name = T_WuBo
        /\ a.rowid < b.rowid

\* ------------------------------------------------------------------------
\* C28: a step of the crawl inserts and deletes no row of any table and
\* leaves name, netid and email of every instructor alone; an instructor
\* row it changes teaches a section of the target term and has the
\* matching key of a card the scan has reached, and the change is to its
\* rating fields only.
\* ------------------------------------------------------------------------
TeachesInTargetTerm(s, id) ==
    \E si \in s.section_instructors, x \in s.sections, t \in s.terms :
        /\ si.instructor_id = id /\ si.section_id = x.section_id /\ x.term_id = t.term_id
        /\ t.semester = TARGET_SEMESTER /\ t.year = TARGET_YEAR
ScannedKeys == {CardScan[page[n]].k : n \in {m \in 1..Len(page) : m <= idx + 1 /\ ~CardScan[page[m]].skip}}
RatingFields == DOMAIN NoRating
SameButRatings(i, j) == \A f \in (DOMAIN i) \ RatingFields : i[f] = j[f]
C28_CrawlFrame ==
    [][/\ \A tbl \in (DOMAIN db) \ {"instructors"} : db'[tbl] = db[tbl]
       /\ Cardinality(db'.instructors) = Cardinality(db.instructors)
       /\ \A i \in db.instructors :
             \E j \in db'.instructors :
                /\ j.instructor_id = i.instructor_id
                /\ j.name = i.name /\ j.netid = i.netid /\ j.email = i.email
                /\ SameButRatings(i, j)
                /\ j # i => (/\ TeachesInTargetTerm(db, i.instructor_id)
                             /\ cpc = "match"
                             /\ key_name(i.name) \in ScannedKeys)]_vars
\* the crawl is over, one "Li, Al" of the target term has been rated, and a
\* row of the same key that teaches in another term only is as it was
C28_Witness ==
    /\ cpc = "finished"
    /\ \E i, j \in db.instructors :
          /\ i # j /\ key_name(i.name) = key_name(j.name)
          /\ ~IsNone(i.rmp_last_refreshed) /\ TeachesInTargetTerm(db, i.instructor_id)
          /\ ~TeachesInTargetTerm(db, j.instructor_id) /\ j.rmp_last_refreshed = None

\* ------------------------------------------------------------------------
\* C29: with DRY_RUN on, no step of the crawl changes the store, and every
\* matched row still has its profile fetched and recorded in matches.
\* ------------------------------------------------------------------------
C29_DryRunWritesNothing ==
    /\ [](dry_run => \A i \in db.instructors : [f \in RatingFields |-> i[f]] = NoRating)
    /\ [][dry_run => (/\ db' = db
                       /\ cpc = "match" =>
                             (/\ Len(matches') = Len(matches) + 1
                              /\ matches'[Len(matches')].instructor_id = Head(pending).instructor_id))]_vars
\* a dry run is over after a profile was fetched and parsed for a row of
\* the catalog
C29_Witness ==
    /\ dry_run /\ cpc = "finished"
    /\ \E n \in DOMAIN matches : ~IsNone(matches[n].parsed)
    /\ db \in Catalogs

\* ------------------------------------------------------------------------
\* C30: the key of a name written "Family, Given" is the key of the same
\* name written "Given Family".
\* ------------------------------------------------------------------------
NoComma(s) == \A j \in DOMAIN s : s[j] # ","
\* the ways to read s as Family "," Given
FamilyGiven(s) ==
    {<<SubSeq(s, 1, j - 1), SubSeq(s, j + 1, Len(s))>> :
        j \in {i \in DOMAIN s : s[i] = "," /\ NoComma(SubSeq(s, 1, i - 1)) /\ NoComma(SubSeq(s, i + 1, Len(s)))}}
C30_KeyNameBothForms ==
    (fn = "key_name" /\ ~IsNone(ret)) =>
        \A fg \in FamilyGiven(arg) : Get(ret) = key_name(fg[2] \o <<" ">> \o fg[1])
\* "Smith, John A." and "John A. Smith" have the key "john a smith"
C30_Witness ==
    /\ fn = "key_name" /\ arg = T_Smith_John_A
    /\ ret = Some(key_name(<<"J", "o", "h", "n", " ", "A", ".", " ", "S", "m", "i", "t", "h">>))
    /\ ret = Some(<<"j", "o", "h", "n", " ", "a", " ", "s", "m", "i", "t", "h">>)

\* ------------------------------------------------------------------------
\* C26 as stated: when the crawl stops by stagnation, the identifier of
\* every rendered card with a profile link is in seen_ids.
\* ------------------------------------------------------------------------
StoppedByStagnation == cpc = "finished" /\ stagnant_loops >= StagnationLimit
HasProfileLink(c) ==
    ~IsNone(CardPool[c].href) /\ StartsWith(Get(CardPool[c].href), S_professor_)
====
